---- MODULE Spec2Model ----
(***************************************************************************)
(* FX pricing agent: session memory store (FxMemoryService), observability *)
(* collector (FxObservabilityPlugin) and the seven-stage pipeline          *)
(* (run_full_fx_pricing_pipeline), as state machines.                      *)
(*                                                                         *)
(* Conventions of the model                                                *)
(*  - a Python str is a sequence of one-character strings (names) or of    *)
(*    lexical tokens (agent texts);                                        *)
(*  - an Optional number is a record [type, n]: type "none" is None,       *)
(*    "int" a number float() converts, "bigint" an int beyond the float    *)
(*    range (json.loads yields one for a literal of 309..4300 digits, and  *)
(*    float() raises OverflowError on it), "str" a non-numeric JSON value; *)
(*  - time.time() is the integer variable now: every call that reads the   *)
(*    clock gets a reading no smaller than the previous one.               *)
(***************************************************************************)
EXTENDS Integers, Sequences, FiniteSets, TLC

VARIABLES
    max_sessions_per_key,   \* FxMemoryService.max_sessions_per_key
    _store,                 \* FxMemoryService._store: key -> list of entries, newest first
    store_order,            \* the keys of _store in insertion order (a dict iterates in it)
    _consolidated,          \* FxMemoryService._consolidated: key -> digest
    _aggregate_metrics,     \* FxMemoryService._aggregate_metrics: key -> metrics
    now,                    \* last reading of time.time()
    next_id,                \* number of FxMemoryEntry objects constructed so far
    last,                   \* the last call on the store: its arguments and outcome
    hist,                   \* ids inserted per key since construction, newest first
    plugins,                \* the FxObservabilityPlugin objects constructed so far, in order
    obs_last,               \* the last callback: the plugin it ran on, its name, its kwargs
    obs_calls,              \* the model, tool and agent calls the runtime began on a
                            \* collector: the reading the before callback pushed, and
                            \* the start the after callback popped once the call ended
    runs,                   \* the calls of run_full_fx_pricing_pipeline: position, locals,
                            \* result
    fn,                     \* the last call of a function without state: its name, its
                            \* argument, what it returned
    batch                   \* the call of run_batch_fx_pricing_pipeline or of
                            \* run_regression_suite: its configs, position and records

memVars == <<max_sessions_per_key, _store, store_order, _consolidated,
             _aggregate_metrics, now, next_id, last, hist>>
obsVars == <<plugins, obs_last, obs_calls>>
pipeVars == <<runs, fn, batch>>
vars == <<memVars, obsVars, pipeVars>>

-----------------------------------------------------------------------------
(* Bounds *)

MaxCap == 2          \* max_sessions_per_key is drawn from 1..MaxCap
MaxAdds == 2         \* add_session_to_memory calls per behaviour
MaxTime == 1         \* clock readings are 0..MaxTime
MaxAge == 1          \* prune ages are 0..MaxAge
MaxSessions == 2     \* consolidate_recent_sessions max_sessions is 1..MaxSessions
TicksPerSecond == 2  \* clock readings per second of the formatted local time

\* consolidate_recent_sessions: the default of max_chars_per_note
MaxCharsPerNote == 160

-----------------------------------------------------------------------------
(* Strings *)

Whitespace == {" "}

\* str.lower() on one character
LowerChar(c) ==
    CASE c = "W" -> "w"
      [] c = "G" -> "g"
      [] c = "U" -> "u"
      [] c = "S" -> "s"
      [] OTHER -> c

\* str.lower()
Lower(s) == [i \in 1..Len(s) |-> LowerChar(s[i])]

\* str.strip(): drops the leading and the trailing whitespace
RECURSIVE LStrip(_)
LStrip(s) ==
    IF s # <<>> /\ Head(s) \in Whitespace THEN LStrip(Tail(s)) ELSE s

RECURSIVE RStrip(_)
RStrip(s) ==
    IF s # <<>> /\ s[Len(s)] \in Whitespace
    THEN RStrip(SubSeq(s, 1, Len(s) - 1))
    ELSE s

Strip(s) == RStrip(LStrip(s))

Min(a, b) == IF a <= b THEN a ELSE b

\* s[:n] for n >= 0
Take(s, n) == SubSeq(s, 1, Min(n, Len(s)))

RECURSIVE SumSeq(_)
SumSeq(s) == IF s = <<>> THEN 0 ELSE Head(s) + SumSeq(Tail(s))

\* FxMemoryService._key (KeyNoStrip: the same without strip())
KeyNoStrip(product_name, region) == <<Lower(product_name), Lower(region)>>
_key(product_name, region) == <<Lower(Strip(product_name)), Lower(Strip(region))>>

-----------------------------------------------------------------------------
(* Optional numbers and JSON texts *)

None == [type |-> "none", n |-> 0]
Num(n) == [type |-> "int", n |-> n]
BigInt == [type |-> "bigint", n |-> 0]
NotANumber == [type |-> "str", n |-> 0]
True == [type |-> "bool", n |-> 1]
List(items) == [type |-> "list", n |-> 0, items |-> items]
Dict(obj) == [type |-> "dict", n |-> 0, obj |-> obj]

\* isinstance(v, (int, float)): bool is a subclass of int
IsNumber(v) == v.type \in {"int", "bigint", "bool"}

\* float(v) raises OverflowError ("int too large to convert to float")
FloatRaises(v) == v.type = "bigint"

\* The members a JSON object text of the model may hold: token -> (key, value).
\* A token stands for the member's source text, separator included.
MemberTable ==
    [tok \in {"overall_score:4", "overall_score:1e400", "overall_score:high",
              "overall_score:true",
              "recommended_price:5", "recommended_price:1e400",
              "target_margin_pct:2", "rate:2", "rate:1e400", "rate:true", "rate:high",
              "quotes:[]", "quotes:[{rate:3}]", "quotes:[7,{rate:3}]", "quotes:3",
              "a:1"} |->
        CASE tok = "overall_score:4" -> [k |-> "overall_score", v |-> Num(4)]
          [] tok = "overall_score:1e400" -> [k |-> "overall_score", v |-> BigInt]
          [] tok = "overall_score:high" -> [k |-> "overall_score", v |-> NotANumber]
          [] tok = "overall_score:true" -> [k |-> "overall_score", v |-> True]
          [] tok = "recommended_price:5" -> [k |-> "recommended_price", v |-> Num(5)]
          [] tok = "recommended_price:1e400" -> [k |-> "recommended_price", v |-> BigInt]
          [] tok = "target_margin_pct:2" -> [k |-> "target_margin_pct", v |-> Num(2)]
          [] tok = "rate:2" -> [k |-> "rate", v |-> Num(2)]
          [] tok = "rate:1e400" -> [k |-> "rate", v |-> BigInt]
          [] tok = "rate:true" -> [k |-> "rate", v |-> True]
          [] tok = "rate:high" -> [k |-> "rate", v |-> NotANumber]
          [] tok = "quotes:[]" -> [k |-> "quotes", v |-> List(<<>>)]
          [] tok = "quotes:[{rate:3}]" ->
                 [k |-> "quotes", v |-> List(<<Dict([rate |-> Num(3)])>>)]
          [] tok = "quotes:[7,{rate:3}]" ->
                 [k |-> "quotes", v |-> List(<<Num(7), Dict([rate |-> Num(3)])>>)]
          [] tok = "quotes:3" -> [k |-> "quotes", v |-> Num(3)]
          [] OTHER -> [k |-> "a", v |-> Num(1)]]

MemberTokens == DOMAIN MemberTable

\* a JSON text that is valid and is no object
ScalarTokens == {"7"}

EmptyObjectText == <<"{", "}">>

NoDict == [ok |-> FALSE, obj |-> <<>>]

\* json.loads(text): [ok, isdict, obj]; ok = FALSE when it raises
JsonLoads(text) ==
    LET s == Strip(text)
        inner == IF Len(s) >= 2 THEN SubSeq(s, 2, Len(s) - 1) ELSE <<>>
        isObject == /\ Len(s) >= 2
                    /\ s[1] = "{"
                    /\ s[Len(s)] = "}"
                    /\ \A i \in 1..Len(inner) : inner[i] \in MemberTokens \cup Whitespace
        members == SelectSeq(inner, LAMBDA tok : tok \in MemberTokens)
        keys == {MemberTable[members[i]].k : i \in 1..Len(members)}
        lastOf(k) == CHOOSE i \in 1..Len(members) :
                        /\ MemberTable[members[i]].k = k
                        /\ \A j \in (i + 1)..Len(members) : MemberTable[members[j]].k # k
    IN  IF isObject
        THEN [ok |-> TRUE, isdict |-> TRUE,
              obj |-> [k \in keys |-> MemberTable[members[lastOf(k)]].v]]
        ELSE IF Len(s) = 1 /\ s[1] \in ScalarTokens
        THEN [ok |-> TRUE, isdict |-> FALSE, obj |-> <<>>]
        ELSE [ok |-> FALSE, isdict |-> FALSE, obj |-> <<>>]

\* FxMemoryService._safe_parse_json on a str: [ok, obj]; ok = FALSE is None
_safe_parse_json(value) ==
    IF Strip(value) = <<>> THEN NoDict
    ELSE LET r == JsonLoads(value)
         IN  IF r.ok /\ r.isdict THEN [ok |-> TRUE, obj |-> r.obj] ELSE NoDict

\* dict.get(k) of a parsed object: None when the key is absent
Get(obj, k) == IF k \in DOMAIN obj THEN obj[k] ELSE None

-----------------------------------------------------------------------------
(* Session memory store: FxMemoryService *)

\* dict[k] = v, dict.pop(k, None), dict.get(k, [])
Put(f, k, v) == [x \in DOMAIN f \cup {k} |-> IF x = k THEN v ELSE f[x]]
Pop(f, k) == [x \in DOMAIN f \ {k} |-> f[x]]
GetList(f, k) == IF k \in DOMAIN f THEN f[k] ELSE <<>>

\* the readings time.time() may give after it gave t, and after its last reading
ReadingsFrom(t) == {u \in {t, t + 1} : u <= MaxTime}
ClockReadings == ReadingsFrom(now)

\* sum(xs) / len(xs) if xs else None, kept as the exact fraction
Mean(xs) ==
    IF xs = <<>> THEN [type |-> "none", num |-> 0, den |-> 1]
    ELSE [type |-> "float", num |-> SumSeq(xs), den |-> Len(xs)]

\* the recommended_price / target_margin_pct an entry contributes (lines 102-109)
StructField(e, field) ==
    LET struct_obj == _safe_parse_json(e.structured_summary_json)
    IN  IF struct_obj.ok /\ DOMAIN struct_obj.obj # {}
        THEN Get(struct_obj.obj, field)
        ELSE None

\* _update_aggregate_metrics raises on these entries: a float() of lines 100-109
MetricsRaises(entries) ==
    \E i \in 1..Len(entries) :
        \/ FloatRaises(entries[i].evaluation_overall_score)
        \/ FloatRaises(StructField(entries[i], "recommended_price"))
        \/ FloatRaises(StructField(entries[i], "target_margin_pct"))

NumbersOf(vals) == LET nums == SelectSeq(vals, IsNumber) IN [i \in 1..Len(nums) |-> nums[i].n]

\* the metrics _update_aggregate_metrics stores for a bucket
ComputeMetrics(entries) ==
    IF entries = <<>>
    THEN [session_count |-> 0,
          avg_evaluation_overall_score |-> Mean(<<>>),
          avg_recommended_price |-> Mean(<<>>),
          avg_target_margin_pct |-> Mean(<<>>),
          first_session_ts |-> None,
          last_session_ts |-> None]
    ELSE LET idx == 1..Len(entries)
             eval_scores == NumbersOf([i \in idx |-> entries[i].evaluation_overall_score])
             prices == NumbersOf([i \in idx |-> StructField(entries[i], "recommended_price")])
             margins == NumbersOf([i \in idx |-> StructField(entries[i], "target_margin_pct")])
             timestamps == {entries[i].created_at_ts : i \in idx}
         IN  [session_count |-> Len(entries),
              avg_evaluation_overall_score |-> Mean(eval_scores),
              avg_recommended_price |-> Mean(prices),
              avg_target_margin_pct |-> Mean(margins),
              first_session_ts |->
                  Num(CHOOSE t \in timestamps : \A u \in timestamps : t <= u),
              last_session_ts |->
                  Num(CHOOSE t \in timestamps : \A u \in timestamps : t >= u)]

\* the metrics table rebuilt with the one key
UpdateMetricsOneKey(metrics, st, key) ==
    [k \in {key} |-> ComputeMetrics(GetList(st, key))]
\* FxMemoryService._update_aggregate_metrics(key), when it does not raise
_update_aggregate_metrics(metrics, st, key) ==
    Put(metrics, key, ComputeMetrics(GetList(st, key)))

\* the evaluation_overall_score of the new entry (lines 154-159)
BackfillSource(a) ==
    IF a.evaluation_overall_score = None /\ a.evaluation_json # <<>>
    THEN LET eval_obj == _safe_parse_json(a.evaluation_json)
         IN  IF eval_obj.ok THEN Get(eval_obj.obj, "overall_score") ELSE None
    ELSE None

BackfilledScore(a) ==
    IF IsNumber(BackfillSource(a)) THEN BackfillSource(a) ELSE a.evaluation_overall_score

\* FxMemoryEntry(...) of lines 161-178
NewEntry(a, t, id) ==
    [id |-> id,
     created_at_ts |-> t,
     product_name |-> a.product_name,
     region |-> a.region,
     reporting_currency |-> a.reporting_currency,
     manager_notes |-> a.manager_notes,
     market_research_json |-> a.market_research_json,
     competitive_pricing_json |-> a.competitive_pricing_json,
     fx_impact_json |-> a.fx_impact_json,
     margin_scenarios_json |-> a.margin_scenarios_json,
     decision_brief_text |-> a.decision_brief_text,
     structured_summary_json |-> a.structured_summary_json,
     evaluation_json |-> a.evaluation_json,
     compacted_summary |-> <<>>,
     evaluation_overall_score |-> BackfilledScore(a)]

\* lines 180-184: insert at the front, truncate to the cap
InsertNoTruncate(entries, entry, cap) == <<entry>> \o entries
\* the bucket replaced by the new entry alone
InsertAlone(entries, entry, cap) == <<entry>>
InsertFront(entries, entry, cap) ==
    LET bucket == <<entry>> \o entries
    IN  IF Len(bucket) > cap THEN Take(bucket, cap) ELSE bucket

\* The record of a call: what it was given, what it returned (ret: the entry of add,
\* removed: the count of prune, summary: the digest of consolidate), whether it raised;
\* for prune, found: "nothing" when the store was empty, "all_older" when every entry
\* it found was created before its clock reading, else "some_fresh";
\* prev: "no" unless the call before was prune_sessions_older_than(0), then that
\* call's found.
NoCall ==
    [op |-> "none", product_name |-> <<>>, region |-> <<>>, age |-> 0, max_sessions |-> 0,
     ret |-> <<>>, removed |-> 0, summary |-> <<>>, raised |-> FALSE,
     found |-> "nothing", prev |-> "no"]

Call(op) ==
    [NoCall EXCEPT !.op = op,
                   !.prev = IF last.op = "prune" /\ last.age = 0
                            THEN last.found
                            ELSE "no"]

AllEntries(st) == UNION {{st[k][i] : i \in 1..Len(st[k])} : k \in DOMAIN st}

Newest(st) ==
    LET stamps == {e.created_at_ts : e \in AllEntries(st)}
    IN  IF stamps = {} THEN -1 ELSE CHOOSE t \in stamps : \A u \in stamps : t >= u

\* FxMemoryService.add_session_to_memory(**a); t is the reading of time.time()
add_session_to_memory(a, t) ==
    LET key == _key(a.product_name, a.region)
        call == [Call("add") EXCEPT !.product_name = a.product_name, !.region = a.region]
    IN  IF FloatRaises(BackfillSource(a))
        THEN \* line 159 raises OverflowError: nothing was changed
             /\ last' = [call EXCEPT !.raised = TRUE]
             /\ UNCHANGED <<max_sessions_per_key, _store, store_order, _consolidated,
                            _aggregate_metrics, now, next_id, hist>>
        ELSE LET entry == NewEntry(a, t, next_id + 1)
                 bucket == InsertFront(GetList(_store, key), entry, max_sessions_per_key)
                 st == Put(_store, key, bucket)
             IN  /\ now' = t
                 /\ next_id' = next_id + 1
                 /\ _store' = st
                 /\ store_order' = IF key \in DOMAIN _store THEN store_order
                                   ELSE Append(store_order, key)
                 /\ hist' = IF hist.pruned THEN hist
                            ELSE [hist EXCEPT !.ids = Put(@, key, <<next_id + 1>> \o GetList(@, key))]
                 /\ IF MetricsRaises(bucket)
                    THEN \* line 186 raises after the insert
                         /\ _aggregate_metrics' = _aggregate_metrics
                         /\ last' = [call EXCEPT !.raised = TRUE]
                    ELSE /\ _aggregate_metrics' = _update_aggregate_metrics(_aggregate_metrics, st, key)
                         /\ last' = [call EXCEPT !.ret = <<entry>>]
                 /\ UNCHANGED <<max_sessions_per_key, _consolidated>>

\* FxMemoryService.load_last_session: <<>> is None
load_last_session(product_name, region) ==
    Take(GetList(_store, _key(product_name, region)), 1)

\* FxMemoryService.search_memory, limit >= 0
search_memory(product_name, region, limit) ==
    Take(GetList(_store, _key(product_name, region)), limit)

\* get_consolidated_memory with the key taken without strip()
GetConsolidatedNoStrip(product_name, region) ==
    LET key == KeyNoStrip(product_name, region)
    IN  IF key \in DOMAIN _consolidated THEN <<_consolidated[key]>> ELSE <<>>

\* FxMemoryService.get_consolidated_memory / get_aggregate_metrics: <<>> is None
get_consolidated_memory(product_name, region) ==
    LET key == _key(product_name, region)
    IN  IF key \in DOMAIN _consolidated THEN <<_consolidated[key]>> ELSE <<>>

get_aggregate_metrics(product_name, region) ==
    LET key == _key(product_name, region)
    IN  IF key \in DOMAIN _aggregate_metrics THEN <<_aggregate_metrics[key]>> ELSE <<>>

get_session_count(product_name, region) ==
    Len(GetList(_store, _key(product_name, region)))

\* time.strftime("%Y-%m-%d %H:%M:%S", time.localtime(ts)): the reading to the second
FormatLocalTime(ts) == ts \div TicksPerSecond

\* manager_notes.strip().replace("\n", " "), cut to max_chars plus "..." (lines 237-239)
DigestNotes(manager_notes, max_chars) ==
    LET stripped == Strip(manager_notes)
        notes == [i \in 1..Len(stripped) |-> IF stripped[i] = "\n" THEN " " ELSE stripped[i]]
    IN  IF Len(notes) > max_chars
        THEN RStrip(Take(notes, max_chars)) \o <<"...">>
        ELSE notes

\* the digest string of consolidate_recent_sessions, by its interpolated parts
Digest(product_name, region, entries, max_chars) ==
    IF entries = <<>>
    THEN [kind |-> "No stored FX sessions yet", product_name |-> product_name,
          region |-> region, count |-> 0, cap |-> 0, lines |-> <<>>]
    ELSE [kind |-> "FX memory summary", product_name |-> product_name,
          region |-> region, count |-> Len(entries), cap |-> max_sessions_per_key,
          lines |-> [i \in 1..Len(entries) |->
                        [idx |-> i,
                         dt |-> FormatLocalTime(entries[i].created_at_ts),
                         reporting_currency |-> entries[i].reporting_currency,
                         notes |-> DigestNotes(entries[i].manager_notes, max_chars)]]]

\* FxMemoryService.consolidate_recent_sessions
consolidate_recent_sessions(product_name, region, max_sessions, max_chars_per_note) ==
    LET entries == search_memory(product_name, region, max_sessions)
        key == _key(product_name, region)
        summary == Digest(product_name, region, entries, max_chars_per_note)
    IN  /\ _consolidated' = Put(_consolidated, key, summary)
        /\ _store' = IF entries = <<>> THEN _store
                     ELSE [_store EXCEPT ![key][1].compacted_summary = <<summary>>]
        /\ last' = [Call("consolidate") EXCEPT !.product_name = product_name,
                                               !.region = region,
                                               !.max_sessions = max_sessions,
                                               !.summary = <<summary>>]
        /\ UNCHANGED <<max_sessions_per_key, store_order, _aggregate_metrics, now,
                       next_id, hist>>

\* line 319: the entries of a bucket that prune keeps
KeepAll(entries, cutoff_ts) == entries
Survivors(entries, cutoff_ts) ==
    SelectSeq(entries, LAMBDA e : e.created_at_ts >= cutoff_ts)

\* the loop of prune_sessions_older_than over the keys still to visit (lines 317-327);
\* s holds the three dicts, the key order, the count so far and whether it raised
RECURSIVE PruneLoop(_, _, _)
PruneLoop(keys, cutoff_ts, s) ==
    IF keys = <<>> \/ s.raised THEN s
    ELSE LET key == Head(keys)
             entries == GetList(s.store, key)
             new_entries == Survivors(entries, cutoff_ts)
             removed == s.removed + (Len(entries) - Len(new_entries))
         IN  IF new_entries # <<>>
             THEN LET st == Put(s.store, key, new_entries)
                  IN  IF MetricsRaises(new_entries)
                      THEN [s EXCEPT !.store = st, !.removed = removed, !.raised = TRUE]
                      ELSE PruneLoop(Tail(keys), cutoff_ts,
                               [s EXCEPT !.store = st, !.removed = removed,
                                         !.metrics = _update_aggregate_metrics(s.metrics, st, key)])
             ELSE PruneLoop(Tail(keys), cutoff_ts,
                      [s EXCEPT !.store = Pop(s.store, key),
                                !.order = SelectSeq(s.order, LAMBDA k : k # key),
                                !.consolidated = Pop(s.consolidated, key),
                                !.metrics = Pop(s.metrics, key),
                                !.removed = removed])

\* FxMemoryService.prune_sessions_older_than(age_seconds); t is the reading of time.time()
prune_sessions_older_than(age_seconds, t) ==
    \E s \in {PruneLoop(store_order, t - age_seconds,
                  [store |-> _store, order |-> store_order, consolidated |-> _consolidated,
                   metrics |-> _aggregate_metrics, removed |-> 0, raised |-> FALSE])} :
        /\ now' = t
        /\ _store' = s.store
        /\ store_order' = s.order
        /\ _consolidated' = s.consolidated
        /\ _aggregate_metrics' = s.metrics
        /\ last' = [Call("prune") EXCEPT !.age = age_seconds,
                                         !.removed = IF s.raised THEN 0 ELSE s.removed,
                                         !.raised = s.raised,
                                         !.found = IF _store = <<>> THEN "nothing"
                                                   ELSE IF Newest(_store) < t THEN "all_older"
                                                   ELSE "some_fresh"]
        /\ hist' = [pruned |-> TRUE, ids |-> <<>>]
        /\ UNCHANGED <<max_sessions_per_key, next_id>>

-----------------------------------------------------------------------------
(* The calls made on the store *)

Widget == <<"W">>
WidgetPadded == <<" ", "w", " ">>
Gadget == <<"G">>
US == <<"U", "S">>
UsLower == <<"u", "s">>

Sites == {<<Widget, US>>, <<WidgetPadded, UsLower>>, <<Gadget, US>>}

BaseArgs ==
    [product_name |-> Widget, region |-> US, reporting_currency |-> "USD",
     manager_notes |-> <<" ", "n">>,
     market_research_json |-> EmptyObjectText,
     competitive_pricing_json |-> EmptyObjectText,
     fx_impact_json |-> EmptyObjectText,
     margin_scenarios_json |-> EmptyObjectText,
     decision_brief_text |-> <<"x">>,
     structured_summary_json |-> EmptyObjectText,
     evaluation_json |-> EmptyObjectText,
     evaluation_overall_score |-> None]

\* calls that differ in the spelling of the key
SpellingCalls ==
    {[BaseArgs EXCEPT !.product_name = site[1], !.region = site[2]] : site \in Sites}

\* calls that differ in what the metrics read
ScoreCalls ==
    {[BaseArgs EXCEPT !.evaluation_overall_score = Num(n)] : n \in {3, 4, 5}}
    \cup {[BaseArgs EXCEPT !.product_name = Gadget,
                           !.structured_summary_json = <<"{", "recommended_price:5", "}">>],
          [BaseArgs EXCEPT !.structured_summary_json = <<"{", "recommended_price:1e400", "}">>]}

\* calls that differ in what the score back-fill reads: a score passed or not, an
\* evaluation JSON that is empty, blank, no JSON, no object, or an object without a
\* score or with a score that is a number, a string, true, or beyond the float range
BackfillCalls ==
    {[BaseArgs EXCEPT !.evaluation_overall_score = score, !.evaluation_json = text] :
        score \in {None, Num(3)},
        text \in {<<>>, <<" ">>, <<"x">>, <<"7">>, EmptyObjectText,
                  <<"{", "overall_score:4", "}">>, <<"{", "overall_score:high", "}">>,
                  <<"{", "overall_score:true", "}">>,
                  <<"{", "overall_score:1e400", "}">>}}

MemInit(caps) ==
    /\ max_sessions_per_key \in caps
    /\ _store = <<>>
    /\ store_order = <<>>
    /\ _consolidated = <<>>
    /\ _aggregate_metrics = <<>>
    /\ now = 0
    /\ next_id = 0
    /\ last = NoCall
    /\ hist = [pruned |-> FALSE, ids |-> <<>>]

Add(calls, max_adds) ==
    /\ next_id < max_adds
    /\ \E a \in calls, t \in ClockReadings : add_session_to_memory(a, t)
    /\ UNCHANGED <<obsVars, pipeVars>>

Consolidate(sites, limits) ==
    /\ \E site \in sites, max_sessions \in limits :
        consolidate_recent_sessions(site[1], site[2], max_sessions, MaxCharsPerNote)
    /\ UNCHANGED <<obsVars, pipeVars>>

Prune ==
    /\ \E age \in 0..MaxAge, t \in ClockReadings : prune_sessions_older_than(age, t)
    /\ UNCHANGED <<obsVars, pipeVars>>

-----------------------------------------------------------------------------
(* Claims on the session memory store *)

\* the spellings search_memory is asked with
SearchNames == {Widget, WidgetPadded, <<"w">>, <<" ", "W">>, Gadget, <<"g", " ">>}
SearchRegions == {US, UsLower, <<" ", "U", "s">>}
SearchLimits == 1..(MaxCap + 5)

\* a and b differ only in letter case or surrounding whitespace
SameUpToCaseAndSpace(a, b) ==
    \E i \in 1..Len(a), j \in 1..Len(b), n \in 1..Len(a) :
        /\ i + n - 1 <= Len(a)
        /\ j + n - 1 <= Len(b)
        /\ \A x \in (1..(i - 1)) \cup ((i + n)..Len(a)) : a[x] \in Whitespace
        /\ \A y \in (1..(j - 1)) \cup ((j + n)..Len(b)) : b[y] \in Whitespace
        /\ a[i] \notin Whitespace /\ a[i + n - 1] \notin Whitespace
        /\ b[j] \notin Whitespace /\ b[j + n - 1] \notin Whitespace
        /\ \A d \in 0..(n - 1) : LowerChar(a[i + d]) = LowerChar(b[j + d])

\* C1: right after add_session_to_memory returned entry e (the cap is >= 1),
\* search_memory with any limit >= 1, under any spelling that differs from the
\* call's product and region only in case or surrounding whitespace, returns a list
\* that starts with e, and e holds the caller's own product_name and region strings.
C1_SearchFindsAdded ==
    (last.op = "add" /\ ~last.raised) =>
        /\ Len(last.ret) = 1
        /\ last.ret[1].product_name = last.product_name
        /\ last.ret[1].region = last.region
        /\ \A p2 \in SearchNames, r2 \in SearchRegions, limit \in SearchLimits :
               (SameUpToCaseAndSpace(p2, last.product_name)
                    /\ SameUpToCaseAndSpace(r2, last.region))
               => /\ search_memory(p2, r2, limit) # <<>>
                  /\ search_memory(p2, r2, limit)[1] = last.ret[1]

\* C1 witness: an entry added as " w "/"us" in front of one added as "W"/"US"
C1_Witness ==
    /\ last.op = "add" /\ ~last.raised
    /\ last.product_name = WidgetPadded /\ last.region = UsLower
    /\ Len(search_memory(Widget, US, 2)) = 2
    /\ search_memory(Widget, US, 2)[1].product_name = WidgetPadded
    /\ search_memory(Widget, US, 2)[2].product_name = Widget

\* C2: while no prune was called, for every key with N inserts so far and cap K,
\* search_memory(limit = K + 5) returns exactly the min(N, K) most recently inserted
\* entries, newest first; and no bucket ever holds more than K entries.
C2_BucketCap ==
    /\ \A k \in DOMAIN _store : Len(_store[k]) <= max_sessions_per_key
    /\ ~hist.pruned =>
           \A k \in DOMAIN hist.ids :
               LET N == Len(hist.ids[k])
                   K == max_sessions_per_key
                   found == search_memory(k[1], k[2], K + 5)
               IN  /\ Len(found) = Min(N, K)
                   /\ \A i \in 1..Len(found) : found[i].id = hist.ids[k][i]

\* C2 witness: more inserts under one key than the cap
C2_Witness ==
    /\ ~hist.pruned
    /\ \E k \in DOMAIN hist.ids :
           /\ Len(hist.ids[k]) > max_sessions_per_key
           /\ Len(_store[k]) = max_sessions_per_key

\* the mean of the numeric scores of a bucket is num / den
IsMeanOfScores(avg, entries) ==
    LET scored == {i \in 1..Len(entries) : IsNumber(entries[i].evaluation_overall_score)}
        total == SumSeq([i \in 1..Len(entries) |->
                            IF i \in scored THEN entries[i].evaluation_overall_score.n ELSE 0])
    IN  IF scored = {} THEN avg.type = "none"
        ELSE avg.type = "float" /\ avg.num * Cardinality(scored) = total * avg.den

\* C3: in every state, for every key, get_aggregate_metrics is what the key's current
\* bucket gives: session_count its length, avg_evaluation_overall_score the mean of
\* the numeric scores in it (3, 4, 5 give 4), first/last_session_ts the min/max of its
\* timestamps; a key has metrics exactly when it has a bucket.
C3_MetricsMatchBucket ==
    /\ DOMAIN _aggregate_metrics = DOMAIN _store
    /\ \A k \in DOMAIN _store :
           LET m == _aggregate_metrics[k]
               entries == _store[k]
               stamps == {entries[i].created_at_ts : i \in 1..Len(entries)}
               scores == [i \in 1..Len(entries) |-> entries[i].evaluation_overall_score]
           IN  /\ m.session_count = Len(entries)
               /\ IsMeanOfScores(m.avg_evaluation_overall_score, entries)
               /\ (\A i \in 1..Len(scores) : scores[i] \in {Num(3), Num(4), Num(5)})
                      /\ {scores[i] : i \in 1..Len(scores)} = {Num(3), Num(4), Num(5)}
                      /\ Len(scores) = 3
                  => m.avg_evaluation_overall_score.num = 4 * m.avg_evaluation_overall_score.den
               /\ entries # <<>> =>
                      /\ m.first_session_ts.n \in stamps
                      /\ m.last_session_ts.n \in stamps
                      /\ \A t \in stamps : m.first_session_ts.n <= t /\ t <= m.last_session_ts.n

\* C4 as stated: after prune_sessions_older_than(0) was called twice in a row, the
\* first call had removed every entry, the second returned 0 and no key has metrics.
C4_PruneZeroTwice ==
    (last.op = "prune" /\ last.age = 0 /\ last.prev # "no") =>
        (last.removed = 0 /\ _store = <<>> /\ _aggregate_metrics = <<>>)

\* C4 amended: the same, when every entry the first call found was created before
\* that call's clock reading (an entry stamped with the reading itself is not older
\* than 0 seconds and stays).
C4_PruneZeroTwiceOlder ==
    (last.op = "prune" /\ last.age = 0 /\ last.prev \in {"nothing", "all_older"}) =>
        (last.removed = 0 /\ ~last.raised /\ _store = <<>> /\ _aggregate_metrics = <<>>)

\* C4 witness: a second prune(0) after a first one that found entries, all older
C4_Witness ==
    /\ last.op = "prune" /\ last.age = 0 /\ last.prev = "all_older"
    /\ last.removed = 0 /\ _store = <<>>

\* C5: a step of prune_sessions_older_than(age) with clock reading now' removes from
\* every bucket exactly the entries with created_at_ts < now' - age, keeps the others
\* in order, returns the number removed over all keys, and a key left without entries
\* loses its bucket, its digest and its metrics.
C5_PruneRemovesOlder ==
    [][last'.op = "prune" /\ last' # last =>
          LET cutoff == now' - last'.age
              kept(k) == SelectSeq(_store[k], LAMBDA e : ~(e.created_at_ts < cutoff))
              count(st) == SumSeq([i \in 1..Len(store_order) |->
                                     IF store_order[i] \in DOMAIN st
                                     THEN Len(st[store_order[i]]) ELSE 0])
          IN  /\ ~last'.raised
              /\ DOMAIN _store' = {k \in DOMAIN _store : kept(k) # <<>>}
              /\ \A k \in DOMAIN _store' : _store'[k] = kept(k)
              /\ last'.removed = count(_store) - count(_store')
              /\ \A k \in DOMAIN _store \ DOMAIN _store' :
                     /\ k \notin DOMAIN _consolidated'
                     /\ k \notin DOMAIN _aggregate_metrics']_memVars

\* the spellings get_consolidated_memory and load_last_session are asked under
DigestQueries ==
    {<<Widget, US>>, <<WidgetPadded, UsLower>>, <<<<"w">>, <<" ", "U", "s">>>>,
     <<Gadget, US>>}

\* C19: get_consolidated_memory is None for a key consolidate_recent_sessions was
\* never run on, or whose digest pruning removed; otherwise it is the string the
\* latest consolidate_recent_sessions call for the normalized key returned, the
\* placeholder string, not None, when that call found the bucket empty.
C19_ConsolidatedCache ==
    [][\A q \in DigestQueries :
          LET p == q[1]
              r == q[2]
              before == get_consolidated_memory(p, r)
              after == get_consolidated_memory(p, r)'
          IN  /\ last.op = "none" => before = <<>>
              /\ IF /\ last'.op = "consolidate"
                    /\ _key(p, r) = _key(last'.product_name, last'.region)
                 THEN /\ after = last'.summary
                      /\ after # <<>>
                      /\ search_memory(p, r, 1) = <<>> =>
                             after[1].kind = "No stored FX sessions yet"
                 ELSE IF last'.op = "prune"
                 THEN after \in {before, <<>>}
                 ELSE after = before]_memVars

\* C19 witness: a consolidate call on an empty bucket, its placeholder read back
\* under another spelling, another key still without digest
C19_Witness ==
    /\ last.op = "consolidate"
    /\ last.product_name = WidgetPadded
    /\ search_memory(Widget, US, 1) = <<>>
    /\ last.summary # <<>>
    /\ last.summary[1].kind = "No stored FX sessions yet"
    /\ get_consolidated_memory(<<"w">>, US) = last.summary
    /\ get_consolidated_memory(Gadget, US) = <<>>

\* C20: consolidate_recent_sessions on a non-empty bucket builds the digest from the
\* min(max_sessions, bucket size) newest entries, newest first, returns it, caches it
\* and writes it to compacted_summary of the newest entry, so that right after the
\* call get_consolidated_memory = load_last_session(...).compacted_summary = the
\* returned string; no other field of an entry, no bucket and no metrics change.
C20_ConsolidateWritesNewest ==
    [][(last'.op = "consolidate"
        /\ search_memory(last'.product_name, last'.region, 1) # <<>>) =>
          LET key == _key(last'.product_name, last'.region)
              bucket == _store[key]
              k == Min(last'.max_sessions, Len(bucket))
              summary == last'.summary[1]
          IN  /\ summary.count = k
              /\ Len(summary.lines) = k
              /\ \A i \in 1..k :
                     /\ summary.lines[i].idx = i
                     /\ summary.lines[i].dt = FormatLocalTime(bucket[i].created_at_ts)
                     /\ summary.lines[i].notes
                            = DigestNotes(bucket[i].manager_notes, MaxCharsPerNote)
              /\ \A q \in DigestQueries :
                     _key(q[1], q[2]) = _key(last'.product_name, last'.region) =>
                         /\ get_consolidated_memory(q[1], q[2])' = <<summary>>
                         /\ load_last_session(q[1], q[2])' # <<>>
                         /\ load_last_session(q[1], q[2])'[1].compacted_summary
                                = <<summary>>
              /\ _store' = [_store EXCEPT ![key][1].compacted_summary = <<summary>>]
              /\ store_order' = store_order
              /\ _aggregate_metrics' = _aggregate_metrics]_memVars

\* entry e of bucket k is still in bucket k after the step, every field but
\* compacted_summary as it was
StaysStored(k, e) ==
    /\ k \in DOMAIN _store'
    /\ \E j \in 1..Len(_store'[k]) :
          [_store'[k][j] EXCEPT !.compacted_summary = e.compacted_summary] = e
\* no bucket holds entry e after the step
LeftStore(e) == \A f \in AllEntries(_store') : f.id # e.id

\* C23: a Session Entry, once added, leaves its bucket only through
\* prune_sessions_older_than, and while it is stored none of its fields other than
\* compacted_summary ever changes, under any sequence of add, consolidate and prune
\* calls.
C23_RemovedOnlyByPrune ==
    [][\A k \in DOMAIN _store : \A i \in 1..Len(_store[k]) :
          \/ StaysStored(k, _store[k][i])
          \/ LeftStore(_store[k][i]) /\ last'.op = "prune"]_memVars

\* C23 as amended: an entry leaves its bucket only through
\* prune_sessions_older_than or through the truncation of an add_session_to_memory
\* on its own key, which drops the entries at positions max_sessions_per_key and
\* beyond of the bucket before the add; while it is stored none of its fields other
\* than compacted_summary changes.
C23_RemovedByPruneOrTruncation ==
    [][\A k \in DOMAIN _store : \A i \in 1..Len(_store[k]) :
          \/ StaysStored(k, _store[k][i])
          \/ LeftStore(_store[k][i]) /\ last'.op = "prune"
          \/ /\ LeftStore(_store[k][i])
             /\ last'.op = "add"
             /\ _key(last'.product_name, last'.region) = k
             /\ i >= max_sessions_per_key
             /\ Len(_store'[k]) = max_sessions_per_key]_memVars

\* C23 witness: an add on a full bucket dropped the oldest entry
C23_Witness ==
    /\ last.op = "add"
    /\ ~hist.pruned
    /\ \E k \in DOMAIN _store :
          /\ Len(_store[k]) = max_sessions_per_key
          /\ Len(GetList(hist.ids, k)) > Len(_store[k])
          /\ \A i \in 1..Len(_store[k]) : _store[k][i].id = hist.ids[k][i]

\* a JSON number: an integer or a fraction literal, of any size
IsJsonNumber(v) == v.type \in {"int", "bigint"}

\* the score C25 names for a call: the caller's, else the evaluation JSON's numeric
\* overall_score, else None
ClaimedScore(a) ==
    IF a.evaluation_overall_score # None THEN a.evaluation_overall_score
    ELSE IF /\ JsonLoads(a.evaluation_json).ok
            /\ JsonLoads(a.evaluation_json).isdict
            /\ "overall_score" \in DOMAIN JsonLoads(a.evaluation_json).obj
            /\ IsJsonNumber(JsonLoads(a.evaluation_json).obj["overall_score"])
    THEN JsonLoads(a.evaluation_json).obj["overall_score"]
    ELSE None

\* C25: add_session_to_memory sets the entry's evaluation_overall_score to the
\* caller's value whenever one is passed; when none is passed, to the numeric
\* overall_score of the evaluation JSON if that JSON parses to an object with one,
\* and leaves it None otherwise, without raising on unparseable or non-object
\* evaluation JSON.
C25_ScoreBackfill ==
    [][\A a \in BackfillCalls : \A t \in 0..MaxTime :
          add_session_to_memory(a, t) =>
              /\ ~last'.raised
              /\ last'.ret # <<>>
              /\ last'.ret[1].evaluation_overall_score = ClaimedScore(a)]_memVars

\* the key an add_session_to_memory call files its entry under
AddedKey(l) == _key(l.product_name, l.region)

\* C29: add_session_to_memory under key k changes the bucket and the metrics of k
\* only: the bucket and the metrics of every other key stay as they were, no
\* cached digest is changed or dropped, so get_consolidated_memory answers every
\* query as before the add, and the entry the add returns is the newest of k and
\* has no compacted_summary
C29_AddTouchesOwnKeyOnly ==
    [][last'.op = "add" =>
        /\ \A j \in DOMAIN _store : j # AddedKey(last') =>
              j \in DOMAIN _store' /\ _store'[j] = _store[j]
        /\ DOMAIN _store' \subseteq DOMAIN _store \cup {AddedKey(last')}
        /\ \A j \in DOMAIN _aggregate_metrics : j # AddedKey(last') =>
              /\ j \in DOMAIN _aggregate_metrics'
              /\ _aggregate_metrics'[j] = _aggregate_metrics[j]
        /\ DOMAIN _aggregate_metrics' \subseteq
              DOMAIN _aggregate_metrics \cup {AddedKey(last')}
        /\ _consolidated' = _consolidated
        /\ \A site \in DigestQueries :
              get_consolidated_memory(site[1], site[2])' =
                  get_consolidated_memory(site[1], site[2])
        /\ ~last'.raised =>
              /\ last'.ret # <<>>
              /\ _store'[AddedKey(last')][1] = last'.ret[1]
              /\ _store'[AddedKey(last')][1].compacted_summary = <<>>
    ]_memVars

\* C29 witness: an add under a key whose digest was cached before it, next to
\* another key that holds an entry: the digest is still the one written to the
\* entry below the new one, and the new newest entry carries none
C29_Witness ==
    /\ last.op = "add"
    /\ ~last.raised
    /\ AddedKey(last) \in DOMAIN _consolidated
    /\ Len(_store[AddedKey(last)]) >= 2
    /\ _store[AddedKey(last)][1].compacted_summary = <<>>
    /\ _store[AddedKey(last)][2].compacted_summary # <<>>
    /\ get_consolidated_memory(last.product_name, last.region)
          = <<_consolidated[AddedKey(last)]>>
    /\ \E j \in DOMAIN _store : j # AddedKey(last) /\ Len(_store[j]) >= 1

-----------------------------------------------------------------------------
(* Observability collector: FxObservabilityPlugin *)

MaxEvents == 3       \* callbacks per collector

\* FxObservabilityPlugin.__init__
NewPlugin ==
    [model_invocations |-> 0, tool_invocations |-> 0, agent_invocations |-> 0,
     errors |-> <<>>, events |-> <<>>,
     _model_start_stack |-> <<>>, _tool_start_stack |-> <<>>, _agent_start_stack |-> <<>>,
     total_model_time_ms |-> 0, total_tool_time_ms |-> 0, total_agent_time_ms |-> 0,
     total_prompt_chars |-> 0, total_response_chars |-> 0]

\* kwargs.get(k): <<>> is None, <<v>> the value
KwGet(kwargs, k) == IF k \in DOMAIN kwargs THEN <<kwargs[k]>> ELSE <<>>
\* a or b, on optional strings
Or(a, b) == IF a # <<>> /\ a[1] # "" THEN a ELSE b
\* str(x) of an optional string
Str(v) == IF v = <<>> THEN "None" ELSE v[1]
\* repr(err) of an optional exception
Repr(v) == IF v = <<>> THEN "None"
           ELSE IF v[1] = "boom" THEN "RuntimeError('boom')"
           ELSE "ValueError('bad')"

\* FxObservabilityPlugin._ms_since(start_ts); t is the reading of _now()
MsSinceReversed(start_ts, t) == (start_ts - t) * 1000
_ms_since(start_ts, t) == (t - start_ts) * 1000

\* FxObservabilityPlugin._extract_ids(kwargs)
_extract_ids(kwargs) ==
    [user_id |-> KwGet(kwargs, "user_id"), session_id |-> KwGet(kwargs, "session_id")]

\* the characters of the truthy part texts of a list of messages (a message is the
\* list of its parts' texts; <<>> is a part without text)
PartsChars(parts) == SumSeq([j \in 1..Len(parts) |-> Len(parts[j])])
PromptChars(kwargs) ==
    LET messages == IF "messages" \in DOMAIN kwargs /\ kwargs.messages # <<>>
                    THEN kwargs.messages
                    ELSE IF "contents" \in DOMAIN kwargs THEN kwargs.contents ELSE <<>>
    IN  SumSeq([i \in 1..Len(messages) |-> PartsChars(messages[i])])
\* the same of the candidates of kwargs["response"] (a candidate is its content's parts)
ResponseChars(kwargs) ==
    LET candidates == IF "response" \in DOMAIN kwargs THEN kwargs.response ELSE <<>>
    IN  SumSeq([i \in 1..Len(candidates) |-> PartsChars(candidates[i])])

\* c is the collector, t1 and t2 the two readings of _now() the callback makes
before_model_callback(c, kwargs, t1, t2) ==
    [c EXCEPT !.model_invocations = @ + 1,
              !.total_prompt_chars = @ + PromptChars(kwargs),
              !._model_start_stack = Append(@, t1),
              !.events = Append(@,
                  [ts |-> t2, type |-> "model_before",
                   model |-> Str(Or(KwGet(kwargs, "model_name"), KwGet(kwargs, "model"))),
                   prompt_chars |-> PromptChars(kwargs),
                   user_id |-> _extract_ids(kwargs).user_id,
                   session_id |-> _extract_ids(kwargs).session_id])]

\* stack.pop() when the stack is not empty
PopLast(stack) == SubSeq(stack, 1, Len(stack) - 1)
\* an after callback's pop of the pending start (lines 100-104, 164-168, 210-214):
\* the stack, the running total and duration_ms afterwards
PopStart(stack, total, t1) ==
    IF stack # <<>>
    THEN [stack |-> PopLast(stack),
          total |-> total + _ms_since(stack[Len(stack)], t1),
          duration_ms |-> Num(_ms_since(stack[Len(stack)], t1))]
    ELSE [stack |-> stack, total |-> total, duration_ms |-> None]

after_model_callback(c, kwargs, t1, t2) ==
    LET popped == PopStart(c._model_start_stack, c.total_model_time_ms, t1)
    IN  [c EXCEPT !.total_response_chars = @ + ResponseChars(kwargs),
                  !._model_start_stack = popped.stack,
                  !.total_model_time_ms = popped.total,
                  !.events = Append(@,
                      [ts |-> t2, type |-> "model_after",
                       response_chars |-> ResponseChars(kwargs),
                       duration_ms |-> popped.duration_ms,
                       user_id |-> _extract_ids(kwargs).user_id,
                       session_id |-> _extract_ids(kwargs).session_id])]

OnModelErrorCounting(c, kwargs, t1, t2) ==
    [c EXCEPT !.model_invocations = @ + 1,
              !.errors = Append(@, Repr(KwGet(kwargs, "error"))),
              !.events = Append(@,
                  [ts |-> t1, type |-> "model_error", error |-> Repr(KwGet(kwargs, "error")),
                   user_id |-> _extract_ids(kwargs).user_id,
                   session_id |-> _extract_ids(kwargs).session_id])]
on_model_error_callback(c, kwargs, t1, t2) ==
    LET msg == Repr(KwGet(kwargs, "error"))
    IN  [c EXCEPT !.errors = Append(@, msg),
                  !.events = Append(@,
                      [ts |-> t1, type |-> "model_error", error |-> msg,
                       user_id |-> _extract_ids(kwargs).user_id,
                       session_id |-> _extract_ids(kwargs).session_id])]

\* before_tool_callback without the push of the start
BeforeToolNoPush(c, kwargs, t1, t2) ==
    [c EXCEPT !.tool_invocations = @ + 1,
              !.events = Append(@,
                  [ts |-> t2, type |-> "tool_before",
                   tool |-> Str(Or(KwGet(kwargs, "tool_name"), KwGet(kwargs, "tool"))),
                   user_id |-> _extract_ids(kwargs).user_id,
                   session_id |-> _extract_ids(kwargs).session_id])]
before_tool_callback(c, kwargs, t1, t2) ==
    [c EXCEPT !.tool_invocations = @ + 1,
              !._tool_start_stack = Append(@, t1),
              !.events = Append(@,
                  [ts |-> t2, type |-> "tool_before",
                   tool |-> Str(Or(KwGet(kwargs, "tool_name"), KwGet(kwargs, "tool"))),
                   user_id |-> _extract_ids(kwargs).user_id,
                   session_id |-> _extract_ids(kwargs).session_id])]

after_tool_callback(c, kwargs, t1, t2) ==
    LET popped == PopStart(c._tool_start_stack, c.total_tool_time_ms, t1)
    IN  [c EXCEPT !._tool_start_stack = popped.stack,
                  !.total_tool_time_ms = popped.total,
                  !.events = Append(@,
                      [ts |-> t2, type |-> "tool_after",
                       tool |-> Str(Or(KwGet(kwargs, "tool_name"), KwGet(kwargs, "tool"))),
                       duration_ms |-> popped.duration_ms,
                       user_id |-> _extract_ids(kwargs).user_id,
                       session_id |-> _extract_ids(kwargs).session_id])]

before_agent_callback(c, kwargs, t1, t2) ==
    [c EXCEPT !.agent_invocations = @ + 1,
              !._agent_start_stack = Append(@, t1),
              !.events = Append(@,
                  [ts |-> t2, type |-> "agent_before",
                   agent |-> Str(Or(KwGet(kwargs, "agent_name"), KwGet(kwargs, "agent"))),
                   user_id |-> _extract_ids(kwargs).user_id,
                   session_id |-> _extract_ids(kwargs).session_id])]

after_agent_callback(c, kwargs, t1, t2) ==
    LET popped == PopStart(c._agent_start_stack, c.total_agent_time_ms, t1)
    IN  [c EXCEPT !._agent_start_stack = popped.stack,
                  !.total_agent_time_ms = popped.total,
                  !.events = Append(@,
                      [ts |-> t2, type |-> "agent_after",
                       agent |-> Str(Or(KwGet(kwargs, "agent_name"), KwGet(kwargs, "agent"))),
                       duration_ms |-> popped.duration_ms,
                       user_id |-> _extract_ids(kwargs).user_id,
                       session_id |-> _extract_ids(kwargs).session_id])]

\* FxObservabilityPlugin.get_summary
get_summary(c) ==
    [model_invocations |-> c.model_invocations,
     tool_invocations |-> c.tool_invocations,
     agent_invocations |-> c.agent_invocations,
     error_count |-> Len(c.errors),
     event_count |-> Len(c.events)]

\* s[i:] of a Python list, for any integer i: a negative i counts from the end, and
\* -0 is 0
SliceFrom(s, i) ==
    LET start == IF i < 0
                 THEN (IF Len(s) + i > 0 THEN Len(s) + i ELSE 0)
                 ELSE Min(i, Len(s))
    IN  SubSeq(s, start + 1, Len(s))

\* FxObservabilityPlugin.get_last_events(n): self.events[-n:]
get_last_events(c, n) == SliceFrom(c.events, 0 - n)

\* the keyword arguments the callbacks are given
NoKwargs == [callback_context |-> "ctx"]
ModelBeforeKwargs ==
    {NoKwargs,
     [model |-> "gemini", contents |-> <<<<<<"h", "i">>, <<>>>>, <<<<"x">>>>>>, user_id |-> "u1"]}
ModelAfterKwargs == {NoKwargs, [response |-> <<<<<<"o", "k">>>>>>, session_id |-> "s1"]}
ModelErrorKwargs == {NoKwargs, [error |-> "boom"], [error |-> "bad", user_id |-> "u1"]}
ToolKwargs == {NoKwargs, [tool_name |-> "fx_rate", tool |-> "other"]}
AgentKwargs == {NoKwargs, [agent_name |-> "", agent |-> "market"]}

NoCallback == [plugin |-> 0, callback |-> "none", kwargs |-> NoKwargs]

\* the collector of plugin p after the named callback
Applied(name, c, kwargs, t1, t2) ==
    CASE name = "before_model_callback" -> before_model_callback(c, kwargs, t1, t2)
      [] name = "after_model_callback" -> after_model_callback(c, kwargs, t1, t2)
      [] name = "on_model_error_callback" -> on_model_error_callback(c, kwargs, t1, t2)
      [] name = "before_tool_callback" -> before_tool_callback(c, kwargs, t1, t2)
      [] name = "after_tool_callback" -> after_tool_callback(c, kwargs, t1, t2)
      [] name = "before_agent_callback" -> before_agent_callback(c, kwargs, t1, t2)
      [] name = "after_agent_callback" -> after_agent_callback(c, kwargs, t1, t2)

\* one callback on plugin p; reads is the number of _now() readings it makes
CallbackOn(p, name, kwargs, reads) ==
    /\ Len(plugins[p].events) < MaxEvents
    /\ \E t1 \in ClockReadings :
         \E t2 \in (IF reads = 1 THEN {t1} ELSE ReadingsFrom(t1)) :
            /\ plugins' = [plugins EXCEPT ![p] = Applied(name, @, kwargs, t1, t2)]
            /\ now' = t2
    /\ obs_last' = [plugin |-> p, callback |-> name, kwargs |-> kwargs]
    /\ UNCHANGED <<max_sessions_per_key, _store, store_order, _consolidated,
                   _aggregate_metrics, next_id, last, hist, pipeVars>>
Callback(p, name, kwargs, reads) ==
    /\ CallbackOn(p, name, kwargs, reads)
    /\ UNCHANGED obs_calls

\* after callbacks read the clock in _ms_since only when the stack is not empty
AfterReads(stack) == IF stack # <<>> THEN 2 ELSE 1

BeforeModel(p) ==
    /\ p \in DOMAIN plugins
    /\ \E kw \in ModelBeforeKwargs : Callback(p, "before_model_callback", kw, 2)
AfterModel(p) ==
    /\ p \in DOMAIN plugins
    /\ \E kw \in ModelAfterKwargs :
          Callback(p, "after_model_callback", kw, AfterReads(plugins[p]._model_start_stack))
ModelError(p) ==
    /\ p \in DOMAIN plugins
    /\ \E kw \in ModelErrorKwargs : Callback(p, "on_model_error_callback", kw, 1)
BeforeTool(p) ==
    /\ p \in DOMAIN plugins
    /\ \E kw \in ToolKwargs : Callback(p, "before_tool_callback", kw, 2)
AfterTool(p) ==
    /\ p \in DOMAIN plugins
    /\ \E kw \in ToolKwargs :
          Callback(p, "after_tool_callback", kw, AfterReads(plugins[p]._tool_start_stack))
BeforeAgent(p) ==
    /\ p \in DOMAIN plugins
    /\ \E kw \in AgentKwargs : Callback(p, "before_agent_callback", kw, 2)
AfterAgent(p) ==
    /\ p \in DOMAIN plugins
    /\ \E kw \in AgentKwargs :
          Callback(p, "after_agent_callback", kw, AfterReads(plugins[p]._agent_start_stack))

Kinds == {"model", "tool", "agent"}
StackOf(c, kind) ==
    CASE kind = "model" -> c._model_start_stack
      [] kind = "tool" -> c._tool_start_stack
      [] kind = "agent" -> c._agent_start_stack
TotalOf(c, kind) ==
    CASE kind = "model" -> c.total_model_time_ms
      [] kind = "tool" -> c.total_tool_time_ms
      [] kind = "agent" -> c.total_agent_time_ms
BeforeName(kind) ==
    CASE kind = "model" -> "before_model_callback"
      [] kind = "tool" -> "before_tool_callback"
      [] kind = "agent" -> "before_agent_callback"
AfterName(kind) ==
    CASE kind = "model" -> "after_model_callback"
      [] kind = "tool" -> "after_tool_callback"
      [] kind = "agent" -> "after_agent_callback"
AfterType(kind) ==
    CASE kind = "model" -> "model_after"
      [] kind = "tool" -> "tool_after"
      [] kind = "agent" -> "agent_after"
\* the start on top of a stack, if any
TopOf(stack) == IF stack = <<>> THEN <<>> ELSE <<stack[Len(stack)]>>

\* the callbacks the runtime makes for one call of a kind: before_<kind>_callback
\* when the call begins, after_<kind>_callback when it ends. Calls of one kind on one
\* collector end in any order: nested calls end innermost first, calls that overlap
\* (parallel tool calls, agents run side by side) end in the order they finish
CallBegin(p, kind) ==
    /\ p \in DOMAIN plugins
    /\ CallbackOn(p, BeforeName(kind), NoKwargs, 2)
    /\ obs_calls' = Append(obs_calls,
                           [plugin |-> p, kind |-> kind,
                            start |-> TopOf(StackOf(plugins'[p], kind))[1],
                            ended |-> FALSE, popped |-> <<>>])
CallEnd(i) ==
    /\ i \in DOMAIN obs_calls
    /\ ~obs_calls[i].ended
    /\ CallbackOn(obs_calls[i].plugin, AfterName(obs_calls[i].kind), NoKwargs,
                  AfterReads(StackOf(plugins[obs_calls[i].plugin], obs_calls[i].kind)))
    /\ obs_calls' = [obs_calls EXCEPT
            ![i].ended = TRUE,
            ![i].popped = TopOf(StackOf(plugins[obs_calls[i].plugin], obs_calls[i].kind))]

ObsInit(n) ==
    /\ plugins = [p \in 1..n |-> NewPlugin]
    /\ obs_last = NoCallback
    /\ obs_calls = <<>>

-----------------------------------------------------------------------------
(* Claims on the observability collector *)

LastEvent(c) == c.events[Len(c.events)]

\* C9: for each kind, an after callback that runs right after the before callback of
\* its kind on the same collector appends an after event whose duration is a number
\* >= 0 and adds that duration to the kind's running total; an after callback that
\* finds the kind's stack empty appends an after event with a null duration and
\* leaves the running total and the stack as they were.
C9_AfterPairsOrNull ==
    [][\A kind \in Kinds :
          (obs_last'.callback = AfterName(kind) /\ plugins' # plugins) =>
              LET p == obs_last'.plugin
                  c == plugins[p]
                  d == plugins'[p]
              IN  /\ Len(d.events) = Len(c.events) + 1
                  /\ LastEvent(d).type = AfterType(kind)
                  /\ (obs_last.callback = BeforeName(kind) /\ obs_last.plugin = p) =>
                         /\ LastEvent(d).duration_ms.type = "int"
                         /\ LastEvent(d).duration_ms.n >= 0
                         /\ TotalOf(d, kind) = TotalOf(c, kind) + LastEvent(d).duration_ms.n
                  /\ StackOf(c, kind) = <<>> =>
                         /\ LastEvent(d).duration_ms = None
                         /\ TotalOf(d, kind) = TotalOf(c, kind)
                         /\ StackOf(d, kind) = <<>>]_obsVars

\* C9 witness: an after event without a start, then a before and its after with a
\* positive duration added to the total
C9_Witness ==
    /\ plugins # <<>>
    /\ Len(plugins[1].events) = 3
    /\ plugins[1].events[1].type = "tool_after"
    /\ plugins[1].events[1].duration_ms = None
    /\ plugins[1].events[2].type = "tool_before"
    /\ plugins[1].events[3].type = "tool_after"
    /\ plugins[1].events[3].duration_ms = Num(1000)
    /\ plugins[1].total_tool_time_ms = 1000
    /\ obs_last.callback = "after_tool_callback"

\* C10: on_model_error_callback appends repr(error) to errors and one model_error
\* event carrying it, and leaves every other field of the collector (the three
\* counters, the three stacks, the three time totals, the two character totals) and
\* every other collector as they were.
C10_ErrorFrame ==
    [][(obs_last'.callback = "on_model_error_callback" /\ plugins' # plugins) =>
          LET p == obs_last'.plugin
              c == plugins[p]
              d == plugins'[p]
              msg == Repr(KwGet(obs_last'.kwargs, "error"))
          IN  /\ d.errors = Append(c.errors, msg)
              /\ Len(d.events) = Len(c.events) + 1
              /\ SubSeq(d.events, 1, Len(c.events)) = c.events
              /\ LastEvent(d).type = "model_error"
              /\ LastEvent(d).error = msg
              /\ d = [c EXCEPT !.errors = d.errors, !.events = d.events]
              /\ \A q \in DOMAIN plugins \ {p} : plugins'[q] = plugins[q]]_obsVars

\* C10 witness: an error reported between a model before and its after
C10_Witness ==
    /\ plugins # <<>>
    /\ Len(plugins[1].events) = 2
    /\ plugins[1].events[1].type = "model_before"
    /\ plugins[1].events[2].type = "model_error"
    /\ plugins[1].errors = <<"RuntimeError('boom')">>
    /\ plugins[1].model_invocations = 1
    /\ plugins[1]._model_start_stack # <<>>

\* C22: for before/after callbacks of one kind, every after event that pops the
\* pending-start stack is paired with the start time its own call's before event
\* recorded, when calls of the kind are nested and when they overlap; a pop happens
\* only on an after event of the same kind.
C22_AfterPairsOwnStart ==
    [][/\ \A i \in DOMAIN obs_calls :
            (~obs_calls[i].ended /\ obs_calls'[i].ended /\ obs_calls'[i].popped # <<>>) =>
                obs_calls'[i].popped[1] = obs_calls[i].start
       /\ \A p \in DOMAIN plugins : \A kind \in Kinds :
            Len(StackOf(plugins'[p], kind)) < Len(StackOf(plugins[p], kind)) =>
                (obs_last'.callback = AfterName(kind) /\ obs_last'.plugin = p)]_obsVars

\* the events of a type among the events of a collector
EventsOf(c, type) == {i \in 1..Len(c.events) : c.events[i].type = type}
BeforeType(kind) ==
    CASE kind = "model" -> "model_before"
      [] kind = "tool" -> "tool_before"
      [] kind = "agent" -> "agent_before"
CounterOf(c, kind) ==
    CASE kind = "model" -> c.model_invocations
      [] kind = "tool" -> c.tool_invocations
      [] kind = "agent" -> c.agent_invocations
\* the counters and stacks of a collector agree with its events
CountsAgree(c) ==
    /\ get_summary(c).event_count = Len(c.events)
    /\ get_summary(c).error_count = Cardinality(EventsOf(c, "model_error"))
    /\ \A kind \in Kinds :
          /\ CounterOf(c, kind) = Cardinality(EventsOf(c, BeforeType(kind)))
          /\ Len(StackOf(c, kind)) =
                Cardinality(EventsOf(c, BeforeType(kind)))
                - Cardinality({i \in EventsOf(c, AfterType(kind)) :
                                 c.events[i].duration_ms # None})

\* C27: after any sequence of before/after/error callbacks, each callback has
\* appended exactly one event and earlier events are never changed or removed
\* (event_count is the number of callbacks so far), each invocation counter equals
\* the number of before events of its kind and never decreases, error_count equals
\* the number of model_error events, and each kind's pending-start stack depth
\* equals its before events minus its after events with a non-null duration.
C27_CollectorCounts ==
    [][\A p \in DOMAIN plugins :
          /\ CountsAgree(plugins[p])
          /\ CountsAgree(plugins'[p])
          /\ plugins'[p] # plugins[p] =>
                /\ Len(plugins'[p].events) = Len(plugins[p].events) + 1
                /\ SubSeq(plugins'[p].events, 1, Len(plugins[p].events))
                      = plugins[p].events
                /\ get_summary(plugins'[p]).event_count
                      = get_summary(plugins[p]).event_count + 1
          /\ \A kind \in Kinds :
                CounterOf(plugins'[p], kind) >= CounterOf(plugins[p], kind)]_obsVars

\* C27 witness: a tool call inside an agent call, the tool's after event with a
\* duration, the agent still pending
C27_Witness ==
    /\ plugins # <<>>
    /\ Len(plugins[1].events) = 3
    /\ plugins[1].events[1].type = "agent_before"
    /\ plugins[1].events[2].type = "tool_before"
    /\ plugins[1].events[3].type = "tool_after"
    /\ plugins[1].events[3].duration_ms # None
    /\ Len(plugins[1]._agent_start_stack) = 1
    /\ plugins[1]._tool_start_stack = <<>>
    /\ get_summary(plugins[1]).event_count = 3

\* C11: for every n >= 0, get_last_events(n) returns exactly min(n, number of
\* recorded events) events: the most recently appended ones, in append order.
C11_LastEvents ==
    \A p \in DOMAIN plugins : \A n \in 0..(MaxEvents + 1) :
        LET events == plugins[p].events
            got == get_last_events(plugins[p], n)
            k == Min(n, Len(events))
        IN  /\ Len(got) = k
            /\ \A i \in 1..k : got[i] = events[Len(events) - k + i]

-----------------------------------------------------------------------------
(* Agent texts: _extract_json_block, _split_text_and_json *)

\* An agent text is a sequence of tokens: Fence is three backticks, JsonTag the word
\* json, "{" and "}" the braces, " " whitespace, a member token the text of one JSON
\* member, anything else prose without braces or backticks.
Fence == "[fence]"
JsonTag == "json"

\* text[i:] starts with ```json
FenceAt(text, i) == i + 1 <= Len(text) /\ text[i] = Fence /\ text[i + 1] = JsonTag

\* the groups of the matches of re.finditer (line 10): from a ```json to the first
\* ``` after it, left to right without overlap, scanning from index from
RECURSIVE FencedBlocks(_, _)
FencedBlocks(text, from) ==
    LET opens == {i \in from..Len(text) : FenceAt(text, i)}
        open == CHOOSE i \in opens : \A j \in opens : i <= j
        closes == {j \in (open + 2)..Len(text) : text[j] = Fence}
        close == CHOOSE j \in closes : \A k \in closes : j <= k
    IN  IF opens = {} \/ closes = {} THEN <<>>
        ELSE <<SubSeq(text, open + 2, close - 1)>> \o FencedBlocks(text, close + 1)

\* text.find("{") and text.rfind("}"): 0 when absent
FindFirst(text, tok) ==
    LET at == {i \in 1..Len(text) : text[i] = tok}
    IN  IF at = {} THEN 0 ELSE CHOOSE i \in at : \A j \in at : i <= j
\* text.find in the place of text.rfind
FindNotLast(text, tok) == FindFirst(text, tok)
FindLast(text, tok) ==
    LET at == {i \in 1..Len(text) : text[i] = tok}
    IN  IF at = {} THEN 0 ELSE CHOOSE i \in at : \A j \in at : i >= j

_extract_json_block(text) ==
    LET match == FencedBlocks(text, 1)
        first == FindFirst(text, "{")
        last_ == FindLast(text, "}")
    IN  IF match # <<>> THEN Strip(match[Len(match)])
        ELSE IF first # 0 /\ last_ # 0 /\ last_ > first
        THEN Strip(SubSeq(text, first, last_))
        ELSE EmptyObjectText

\* _split_text_and_json(text): the pair (text part, JSON part)
_split_text_and_json(text) ==
    LET opens == {i \in 1..Len(text) : FenceAt(text, i)}
        at == CHOOSE i \in opens : \A j \in opens : i <= j
    IN  IF opens # {}
        THEN [text |-> Strip(SubSeq(text, 1, at - 1)),
              json |-> _extract_json_block(<<Fence, JsonTag>>
                                           \o SubSeq(text, at + 2, Len(text)))]
        ELSE [text |-> Strip(text), json |-> EmptyObjectText]

MaxTextLen == 6      \* tokens of an agent text

\* the heading line the decision-brief instruction tells the agent to put before the
\* JSON object of its second section, as one token
SectionMarker == "[STRUCTURED_SUMMARY_JSON]"

TextTokens == {Fence, JsonTag, "{", "}", " ", "x"}
TokenTexts(n) == UNION {[1..k -> TextTokens] : k \in 0..n}

\* decision outputs that carry the heading: something, the heading, something
MarkedTexts ==
    {head \o <<SectionMarker>> \o tail :
        head \in TokenTexts(MaxTextLen - 5), tail \in TokenTexts(MaxTextLen - 2)}

ExtractJsonBlock ==
    /\ fn.op = "none"
    /\ fn' = [fn EXCEPT !.op = "_extract_json_block",
                        !.ret = _extract_json_block(fn.arg)]
    /\ UNCHANGED <<memVars, obsVars, runs, batch>>

SplitTextAndJson ==
    /\ fn.op = "none"
    /\ fn' = [fn EXCEPT !.op = "_split_text_and_json",
                        !.ret = _split_text_and_json(fn.arg)]
    /\ UNCHANGED <<memVars, obsVars, runs, batch>>

-----------------------------------------------------------------------------
(* Claims on the agent texts *)

\* the places of a text where a ```json opens a block that a later ``` closes
ClosedOpeners(text) ==
    {i \in 1..Len(text) : FenceAt(text, i)
                            /\ \E j \in (i + 2)..Len(text) : text[j] = Fence}

\* what stands between the opener at i and the first ``` after it
BlockAt(text, i) ==
    LET closes == {j \in (i + 2)..Len(text) : text[j] = Fence}
        close == CHOOSE j \in closes : \A k \in closes : j <= k
    IN  SubSeq(text, i + 2, close - 1)

\* C12: on a text with one or more closed ```json blocks, _extract_json_block
\* returns the content of the last of them, fences and surrounding whitespace
\* removed, whatever braces or earlier blocks the text has.
C12_LastFencedBlock ==
    (fn.op = "_extract_json_block" /\ ClosedOpeners(fn.arg) # {}) =>
        LET opens == ClosedOpeners(fn.arg)
            last_open == CHOOSE i \in opens : \A j \in opens : i >= j
        IN  fn.ret = Strip(BlockAt(fn.arg, last_open))

\* "{" occurs before the last "}"
BraceSlice(text) ==
    LET opens == {i \in 1..Len(text) : text[i] = "{"}
        closes == {i \in 1..Len(text) : text[i] = "}"}
    IN  IF \E i \in opens : \E j \in closes : i < j
        THEN <<SubSeq(text, CHOOSE i \in opens : \A k \in opens : i <= k,
                            CHOOSE j \in closes : \A k \in closes : j >= k)>>
        ELSE <<>>

\* C13: on a text without a closed ```json block, _extract_json_block returns the
\* slice from the first "{" to the last "}" when a "{" stands before the last "}",
\* and the text {} otherwise; on every text, the empty one too, it returns a string.
C13_BraceFallback ==
    fn.op = "_extract_json_block" =>
        /\ fn.ret \in Seq(TextTokens \cup {SectionMarker})
        /\ ClosedOpeners(fn.arg) = {} =>
               fn.ret = IF BraceSlice(fn.arg) # <<>> THEN BraceSlice(fn.arg)[1]
                        ELSE EmptyObjectText

\* C13 witness: an opener that nothing closes, and braces with text around them
C13_Witness ==
    /\ fn.op = "_extract_json_block"
    /\ fn.arg = <<Fence, JsonTag, "{", "x", "}", " ">>
    /\ fn.ret = <<"{", "x", "}">>

\* C14: the split of the decision output is at the section heading the decision-brief
\* instruction asks for: the text part is the trimmed text before the heading, with
\* neither the heading nor a JSON block in it, the JSON part is the JSON block after
\* the heading; without the heading the text part is the whole trimmed text and the
\* JSON part is {}.
C14_SplitAtMarker ==
    fn.op = "_split_text_and_json" =>
        LET at == FindFirst(fn.arg, SectionMarker)
        IN  IF at # 0
            THEN /\ fn.ret.text = Strip(SubSeq(fn.arg, 1, at - 1))
                 /\ \A i \in 1..Len(fn.ret.text) :
                        fn.ret.text[i] # SectionMarker /\ ~FenceAt(fn.ret.text, i)
                 /\ fn.ret.json =
                        _extract_json_block(SubSeq(fn.arg, at + 1, Len(fn.arg)))
            ELSE /\ fn.ret.text = Strip(fn.arg)
                 /\ fn.ret.json = EmptyObjectText

-----------------------------------------------------------------------------
(* Pipeline: run_full_fx_pricing_pipeline *)

MaxRuns == 2         \* calls of run_full_fx_pricing_pipeline per behaviour

\* FX_MEMORY = FxMemoryService(max_sessions_per_key=10)
FxMemoryCap == 10

\* the agents in the order the function awaits them
StageAgentsSwapped ==
    <<"market_research_agent", "competitive_pricing_agent", "fx_impact_agent",
      "vendor_fx_agent", "margin_scenario_planner_agent", "decision_brief_agent",
      "evaluation_agent">>
StageAgents ==
    <<"market_research_agent", "competitive_pricing_agent", "vendor_fx_agent",
      "fx_impact_agent", "margin_scenario_planner_agent", "decision_brief_agent",
      "evaluation_agent">>
Stages == 1..7

\* what the pc of a run says: 0 not called, 1..7 at that stage, then returned or raised
Returned == 8
Raised == 9

\* the callbacks the backend fires on the runner's plugins during one agent invocation
BackendScript(backend, stage) ==
    CASE backend = "quiet" -> <<>>
      [] backend = "model" ->
            IF stage = 1 THEN <<"before_model_callback", "after_model_callback",
                                "before_model_callback", "after_model_callback">>
            ELSE <<"before_model_callback", "after_model_callback">>
      [] backend = "first_only" ->
            IF stage = 1 THEN <<"before_model_callback", "on_model_error_callback">>
            ELSE <<>>
Backends == {"quiet", "model", "first_only"}

\* runner.run is a synchronous loop (lines 54-63): while one run is inside it, the
\* event loop runs no other run
NoOtherInFlight(r) == \A q \in DOMAIN runs \ {r} : ~runs[q].inflight

\* current_fx_rate after the vendor stage (lines 153-164), in hundredths: float(v) of
\* the top-level rate, or of the rate of quotes[0], or 0.14; except Exception drops
\* the OverflowError of float
DefaultFxRate == 14
VendorRateOf(vendor_obj) ==
    IF ~(vendor_obj.ok /\ vendor_obj.isdict) THEN DefaultFxRate
    ELSE IF "rate" \in DOMAIN vendor_obj.obj /\ IsNumber(vendor_obj.obj["rate"])
    THEN (IF FloatRaises(vendor_obj.obj["rate"]) THEN DefaultFxRate
          ELSE vendor_obj.obj["rate"].n * 100)
    ELSE IF /\ "quotes" \in DOMAIN vendor_obj.obj
            /\ vendor_obj.obj["quotes"].type = "list"
            /\ vendor_obj.obj["quotes"].items # <<>>
    THEN \* q0 = quotes[0]
         (IF /\ vendor_obj.obj["quotes"].items[1].type = "dict"
             /\ "rate" \in DOMAIN vendor_obj.obj["quotes"].items[1].obj
             /\ IsNumber(vendor_obj.obj["quotes"].items[1].obj["rate"])
          THEN (IF FloatRaises(vendor_obj.obj["quotes"].items[1].obj["rate"])
                THEN DefaultFxRate
                ELSE vendor_obj.obj["quotes"].items[1].obj["rate"].n * 100)
          ELSE DefaultFxRate)
    ELSE DefaultFxRate
VendorRate(vendor_fx_json) == VendorRateOf(JsonLoads(vendor_fx_json))

NoRun ==
    [pc |-> 0, inflight |-> FALSE, fired |-> 0, backend |-> "quiet", obs_plugin |-> 0,
     product_name |-> <<>>, region |-> <<>>, manager_notes |-> <<>>,
     previous_entry |-> <<>>, current_fx_rate |-> DefaultFxRate,
     market_research_json |-> <<>>, competitive_pricing_json |-> <<>>,
     vendor_fx_json |-> <<>>, fx_impact_json |-> <<>>, margin_scenarios_json |-> <<>>,
     decision_brief_text |-> <<>>, structured_summary_json |-> <<>>,
     evaluation_text |-> <<>>, evaluation_json |-> <<>>,
     result |-> <<>>, trace |-> <<>>,
     model_before_fired |-> 0, callbacks_fired |-> 0, stages_with_model |-> 0]

\* obs_plugin = FxObservabilityPlugin(...) of lines 80-83: the plugins afterwards and
\* the one the run holds
ReusePlugin(ps) ==
    IF ps = <<>> THEN [plugins |-> <<NewPlugin>>, id |-> 1] ELSE [plugins |-> ps, id |-> 1]
CreatePlugin(ps) == [plugins |-> Append(ps, NewPlugin), id |-> Len(ps) + 1]

\* lines 80-102: the call up to its first agent invocation
Start(r, products, backends) ==
    /\ runs[r].pc = 0
    /\ r > 1 => runs[r - 1].pc # 0
    /\ NoOtherInFlight(r)
    /\ \E product_name \in products, backend \in backends :
         LET created == CreatePlugin(plugins)
         IN  /\ plugins' = created.plugins
             /\ runs' = [runs EXCEPT ![r] =
                    [NoRun EXCEPT !.pc = 1, !.backend = backend,
                                  !.obs_plugin = created.id,
                                  !.product_name = product_name, !.region = US,
                                  !.manager_notes = <<"n">>,
                                  !.previous_entry = load_last_session(product_name, US)]]
    /\ UNCHANGED <<memVars, obs_last, obs_calls, fn, batch>>

\* _run_single_agent(agent=..., obs_plugin=obs_plugin) up to runner.run
Invoke(r) ==
    /\ runs[r].pc \in Stages
    /\ ~runs[r].inflight
    /\ NoOtherInFlight(r)
    /\ runs' = [runs EXCEPT ![r].inflight = TRUE, ![r].fired = 0,
                   ![r].trace = Append(@, [ev |-> "call",
                                           agent |-> StageAgents[runs[r].pc],
                                           plugin |-> runs[r].obs_plugin])]
    /\ UNCHANGED <<memVars, obsVars, fn, batch>>

\* the backend fires its next callback on the plugin the runner was given
BackendCallback(r) ==
    LET script == BackendScript(runs[r].backend, runs[r].pc)
        name == script[runs[r].fired + 1]
        p == runs[r].trace[Len(runs[r].trace)].plugin
        reads == IF name = "on_model_error_callback" THEN 1
                 ELSE IF name = "after_model_callback"
                 THEN AfterReads(plugins[p]._model_start_stack)
                 ELSE IF name = "after_tool_callback"
                 THEN AfterReads(plugins[p]._tool_start_stack)
                 ELSE IF name = "after_agent_callback"
                 THEN AfterReads(plugins[p]._agent_start_stack)
                 ELSE 2
    IN  /\ runs[r].pc \in Stages
        /\ runs[r].inflight
        /\ runs[r].fired < Len(script)
        /\ \E t1 \in ClockReadings :
             \E t2 \in (IF reads = 1 THEN {t1} ELSE ReadingsFrom(t1)) :
                /\ plugins' = [plugins EXCEPT ![p] = Applied(name, @, NoKwargs, t1, t2)]
                /\ now' = t2
        /\ obs_last' = [plugin |-> p, callback |-> name, kwargs |-> NoKwargs]
        /\ runs' = [runs EXCEPT
               ![r].fired = @ + 1,
               ![r].callbacks_fired = @ + 1,
               ![r].model_before_fired =
                   IF name = "before_model_callback" THEN @ + 1 ELSE @,
               ![r].stages_with_model =
                   IF name = "before_model_callback"
                      /\ \A i \in 1..runs[r].fired : script[i] # "before_model_callback"
                   THEN @ + 1 ELSE @]
        /\ UNCHANGED <<max_sessions_per_key, _store, store_order, _consolidated,
                       _aggregate_metrics, next_id, last, hist, obs_calls, fn, batch>>

\* total / count of get_detailed_summary: 0.0 without invocations, else the fraction
Average(total, count) ==
    IF count > 0 THEN [num |-> total, den |-> count] ELSE [num |-> 0, den |-> 1]

\* FxObservabilityPlugin.get_detailed_summary
get_detailed_summary(c) ==
    [model_invocations |-> c.model_invocations,
     tool_invocations |-> c.tool_invocations,
     agent_invocations |-> c.agent_invocations,
     total_model_time_ms |-> c.total_model_time_ms,
     total_tool_time_ms |-> c.total_tool_time_ms,
     total_agent_time_ms |-> c.total_agent_time_ms,
     avg_model_time_ms |-> Average(c.total_model_time_ms, c.model_invocations),
     avg_tool_time_ms |-> Average(c.total_tool_time_ms, c.tool_invocations),
     avg_agent_time_ms |-> Average(c.total_agent_time_ms, c.agent_invocations),
     total_prompt_chars |-> c.total_prompt_chars,
     total_response_chars |-> c.total_response_chars,
     error_count |-> Len(c.errors),
     last_error |-> IF c.errors # <<>> THEN <<c.errors[Len(c.errors)]>> ELSE <<>>,
     event_count |-> Len(c.events)]

\* the locals of a run after the agent of its stage returned text (lines 118, 135,
\* 151-164, 184, 208, 229, 245)
AfterStage(run, text) ==
    CASE run.pc = 1 -> [run EXCEPT !.market_research_json = _extract_json_block(text)]
      [] run.pc = 2 -> [run EXCEPT !.competitive_pricing_json = _extract_json_block(text)]
      [] run.pc = 3 -> [run EXCEPT !.vendor_fx_json = _extract_json_block(text),
                                   !.current_fx_rate = VendorRate(_extract_json_block(text))]
      [] run.pc = 4 -> [run EXCEPT !.fx_impact_json = _extract_json_block(text)]
      [] run.pc = 5 -> [run EXCEPT !.margin_scenarios_json = _extract_json_block(text)]
      [] run.pc = 6 -> [run EXCEPT !.decision_brief_text = _split_text_and_json(text).text,
                                   !.structured_summary_json = _split_text_and_json(text).json]
      [] run.pc = 7 -> [run EXCEPT !.evaluation_text = _split_text_and_json(text).text,
                                   !.evaluation_json = _split_text_and_json(text).json]

\* the keyword arguments of FX_MEMORY.add_session_to_memory (lines 247-259)
CommitArgs(run) ==
    [product_name |-> run.product_name, region |-> run.region,
     reporting_currency |-> "USD",
     manager_notes |-> run.manager_notes,
     market_research_json |-> run.market_research_json,
     competitive_pricing_json |-> run.competitive_pricing_json,
     fx_impact_json |-> run.fx_impact_json,
     margin_scenarios_json |-> run.margin_scenarios_json,
     decision_brief_text |-> run.decision_brief_text,
     structured_summary_json |-> run.structured_summary_json,
     evaluation_json |-> run.evaluation_json,
     evaluation_overall_score |-> None]

\* the dict the function returns (lines 261-279)
Result(run, c) ==
    [product_name |-> run.product_name,
     region |-> run.region,
     reporting_currency |-> "USD",
     decision_brief_text |-> run.decision_brief_text,
     structured_summary_json |-> run.structured_summary_json,
     evaluation_json |-> run.evaluation_json,
     evaluation_text |-> run.evaluation_text,
     market_research_json |-> run.market_research_json,
     competitive_pricing_json |-> run.competitive_pricing_json,
     fx_impact_json |-> run.fx_impact_json,
     margin_scenarios_json |-> run.margin_scenarios_json,
     vendor_fx_json |-> run.vendor_fx_json,
     observability_summary |-> get_summary(c),
     observability_detailed |-> get_detailed_summary(c)]

\* runner.run of a stage before the last returns text: the locals of the stage are
\* set and the next stage is reached
ReturnStage(r, texts) ==
    /\ runs[r].pc \in 1..6
    /\ runs[r].inflight
    /\ runs[r].fired = Len(BackendScript(runs[r].backend, runs[r].pc))
    /\ \E text \in texts[runs[r].pc] :
         runs' = [runs EXCEPT ![r] =
                    [AfterStage(runs[r], text) EXCEPT
                        !.pc = @ + 1, !.inflight = FALSE,
                        !.trace = Append(@, [ev |-> "return",
                                             agent |-> StageAgents[runs[r].pc],
                                             plugin |-> runs[r].obs_plugin])]]
    /\ UNCHANGED <<memVars, obsVars, fn, batch>>

\* the evaluation agent returns text: lines 245-279, the commit to FX_MEMORY and the
\* result, or the exception add_session_to_memory raises
ReturnAndCommit(r, texts) ==
    /\ runs[r].pc = 7
    /\ runs[r].inflight
    /\ runs[r].fired = Len(BackendScript(runs[r].backend, runs[r].pc))
    /\ \E text \in texts[7], t \in ClockReadings :
       \E run \in {AfterStage(runs[r], text)} :
         LET trace == run.trace \o <<[ev |-> "return", agent |-> StageAgents[7],
                                      plugin |-> run.obs_plugin],
                                     [ev |-> "add", agent |-> "FX_MEMORY",
                                      plugin |-> run.obs_plugin]>>
         IN  /\ add_session_to_memory(CommitArgs(run), t)
             /\ runs' = [runs EXCEPT ![r] =
                    IF last'.raised
                    THEN [run EXCEPT !.pc = Raised, !.inflight = FALSE, !.trace = trace]
                    ELSE [run EXCEPT !.pc = Returned, !.inflight = FALSE, !.trace = trace,
                                     !.result = <<Result(run, plugins[run.obs_plugin])>>]]
    /\ UNCHANGED <<obsVars, fn, batch>>

\* runner.run raises inside _run_single_agent (lines 54-63), after any number of the
\* backend's callbacks: the pipeline has no handler, so the call ends there
BackendRaiseCommits(r) ==
    /\ runs[r].pc \in Stages
    /\ runs[r].inflight
    /\ add_session_to_memory(CommitArgs(runs[r]), now)
    /\ runs' = [runs EXCEPT ![r].pc = Raised, ![r].inflight = FALSE,
                   ![r].trace = Append(@, [ev |-> "raise",
                                           agent |-> StageAgents[runs[r].pc],
                                           plugin |-> runs[r].obs_plugin])]
    /\ UNCHANGED <<obsVars, fn, batch>>
BackendRaise(r) ==
    /\ runs[r].pc \in Stages
    /\ runs[r].inflight
    /\ runs' = [runs EXCEPT ![r].pc = Raised, ![r].inflight = FALSE,
                   ![r].trace = Append(@, [ev |-> "raise",
                                           agent |-> StageAgents[runs[r].pc],
                                           plugin |-> runs[r].obs_plugin])]
    /\ UNCHANGED <<memVars, obsVars, fn, batch>>

NoFn == [op |-> "none", arg |-> <<>>, ret |-> <<>>]

\* no call of a runner: kind is "batch" or "regression" once there is one, pc the
\* place in its loop, idx the loop index, records batch_meta or regression_results
NoBatch ==
    [kind |-> "none", pc |-> "idle", configs |-> <<>>, idx |-> 0, start |-> 0,
     batch_results |-> <<>>, records |-> <<>>]

PipeInit ==
    /\ runs = [r \in 1..MaxRuns |-> NoRun]
    /\ fn = NoFn
    /\ batch = NoBatch

\* the arguments the functions are applied to, one per behaviour
FnInit(args) ==
    /\ runs = [r \in 1..MaxRuns |-> NoRun]
    /\ fn \in {[op |-> "none", arg |-> a, ret |-> <<>>] : a \in args}
    /\ batch = NoBatch

\* the texts the agents return
Fenced(object) == <<"x", " ", Fence, JsonTag, " ">> \o object \o <<" ", Fence>>
PlainTexts ==
    {<<>>, <<"x">>, <<"x", "{", "a:1", "}", " ">>, Fenced(EmptyObjectText),
     <<Fence, JsonTag, "{", "x", Fence>>, <<"7">>, Fenced(<<>>)}
\* one text per stage, and an evaluation whose overall_score no float can hold
RunTexts ==
    [k \in Stages |->
        IF k = 3 THEN {Fenced(<<"{", "rate:2", "}">>)}
        ELSE IF k = 6 THEN {Fenced(<<"{", "recommended_price:5", "}">>)}
        ELSE IF k = 7 THEN {Fenced(<<"{", "overall_score:4", "}">>),
                            Fenced(<<"{", "overall_score:1e400", "}">>)}
        ELSE {Fenced(EmptyObjectText)}]
\* one text per stage, and a decision whose recommended_price no float can hold
CommitTexts ==
    [k \in Stages |->
        IF k = 3 THEN {Fenced(<<"{", "rate:2", "}">>)}
        ELSE IF k = 6 THEN {Fenced(<<"{", "recommended_price:5", "}">>),
                            Fenced(<<"{", "recommended_price:1e400", "}">>)}
        ELSE IF k = 7 THEN {Fenced(<<"{", "overall_score:4", "}">>)}
        ELSE {Fenced(EmptyObjectText)}]
\* texts with and without JSON at every stage
AnyTexts ==
    [k \in Stages |->
        IF k = 3 THEN {<<>>, Fenced(<<"{", "rate:2", "}">>), <<"{", "rate:1e400", "}">>}
        ELSE IF k = 6 THEN PlainTexts \cup {Fenced(<<"{", "recommended_price:5", "}">>),
                                            Fenced(<<"{", "recommended_price:1e400", "}">>)}
        ELSE IF k = 7 THEN PlainTexts \cup {Fenced(<<"{", "overall_score:4", "}">>),
                                            Fenced(<<"{", "overall_score:high", "}">>),
                                            Fenced(<<"{", "overall_score:1e400", "}">>)}
        ELSE IF k = 1 THEN PlainTexts
        ELSE {<<>>, Fenced(EmptyObjectText)}]

MaxMembers == 2      \* members of the vendor's JSON object

VendorTokens ==
    {"rate:2", "rate:1e400", "rate:true", "rate:high",
     "quotes:[]", "quotes:[{rate:3}]", "quotes:[7,{rate:3}]", "quotes:3", "a:1"}
VendorObjects ==
    {<<"{">> \o members \o <<"}">> :
        members \in UNION {[1..k -> VendorTokens] : k \in 0..MaxMembers}}
\* what the vendor agent returns: an object, bare or fenced, or no object
VendorTexts ==
    VendorObjects \cup {Fenced(object) : object \in VendorObjects}
                  \cup {<<>>, <<"x">>, <<"7">>}

\* lines 151-164 on the vendor agent's output
VendorFxRate ==
    /\ fn.op = "none"
    /\ fn' = [fn EXCEPT !.op = "current_fx_rate",
                        !.ret = VendorRate(_extract_json_block(fn.arg))]
    /\ UNCHANGED <<memVars, obsVars, runs, batch>>

-----------------------------------------------------------------------------
(* Health check and regression summary: evaluate_pipeline_output_basic,
   summarize_regression_suite_results *)

BriefMinChars == 400
MaxBriefLen == 3     \* tokens of a fabricated decision brief

\* 399 characters of prose as one token
LongProse == "x399"

\* len(text) in characters; every token but LongProse stands for fewer characters
\* than a text of the model needs to pass 400 without LongProse, and is counted as 1
RECURSIVE Chars(_)
Chars(text) ==
    IF text = <<>> THEN 0
    ELSE (IF text[1] = LongProse THEN 399 ELSE 1) + Chars(Tail(text))

\* d.get(k, default)
DictGet(d, k, default) == IF k \in DOMAIN d THEN d[k] ELSE default

\* lines 97-101 with elif in place of the second if
BriefIssuesElif(decision_brief_text) ==
    IF Strip(decision_brief_text) = <<>> THEN <<"empty_decision_brief">>
    ELSE IF Chars(Strip(decision_brief_text)) < BriefMinChars
    THEN <<"decision_brief_too_short">>
    ELSE <<>>

\* lines 97-101: the flags of the decision brief
BriefIssues(decision_brief_text) ==
    (IF Strip(decision_brief_text) = <<>> THEN <<"empty_decision_brief">> ELSE <<>>)
    \o (IF Chars(Strip(decision_brief_text)) < BriefMinChars
        THEN <<"decision_brief_too_short">> ELSE <<>>)

evaluate_pipeline_output_basic(result) ==
    LET structured_summary_json == DictGet(result, "structured_summary_json", <<>>)
        evaluation_json == DictGet(result, "evaluation_json", <<>>)
        decision_brief_text == DictGet(result, "decision_brief_text", <<>>)
        struct_obj == JsonLoads(structured_summary_json)
        eval_obj == JsonLoads(evaluation_json)
        model_calls ==
            IF "observability_summary" \in DOMAIN result
            THEN DictGet(result["observability_summary"], "model_invocations", 0)
            ELSE 0
        issues ==
            (IF ~struct_obj.ok THEN <<"structured_summary_not_valid_json">> ELSE <<>>)
            \o (IF ~eval_obj.ok THEN <<"evaluation_not_valid_json">> ELSE <<>>)
            \o BriefIssues(decision_brief_text)
            \o (IF model_calls = 0 THEN <<"no_model_invocations">> ELSE <<>>)
            \o (IF struct_obj.ok /\ ~struct_obj.isdict
                THEN <<"structured_summary_not_dict">> ELSE <<>>)
            \o (IF eval_obj.ok /\ ~eval_obj.isdict
                THEN <<"evaluation_not_dict">> ELSE <<>>)
    IN  [passed |-> Len(issues) = 0, issue_count |-> Len(issues), issues |-> issues]

\* fabricated results: any of the four keys may be missing
JsonTexts == {EmptyObjectText, <<"7">>, <<"x">>}
Briefs == UNION {[1..k -> {" ", "x", LongProse}] : k \in 0..MaxBriefLen}
ObsSummaries ==
    {[model_invocations |-> 0, error_count |-> 0],
     [model_invocations |-> 2, error_count |-> 0],
     [error_count |-> 0]}
HealthKeys ==
    {"structured_summary_json", "evaluation_json", "decision_brief_text",
     "observability_summary"}
FabricatedResults ==
    {[k \in keys |-> full[k]] :
        keys \in SUBSET HealthKeys,
        full \in [structured_summary_json : JsonTexts, evaluation_json : JsonTexts,
                  decision_brief_text : Briefs, observability_summary : ObsSummaries]}

EvaluatePipelineOutputBasic ==
    /\ fn.op = "none"
    /\ fn' = [fn EXCEPT !.op = "evaluate_pipeline_output_basic",
                        !.ret = evaluate_pipeline_output_basic(fn.arg)]
    /\ UNCHANGED <<memVars, obsVars, runs, batch>>

MaxCases == 3        \* items of a list of regression results

\* item.get("health", {}) or {}, then .get("passed", False) and .get("issues", [])
PassedOf(item) ==
    IF "health" \in DOMAIN item THEN DictGet(item["health"], "passed", FALSE) ELSE FALSE
IssuesOf(item) ==
    IF "health" \in DOMAIN item THEN DictGet(item["health"], "issues", <<>>) ELSE <<>>

\* the issues of all items in the order the loops of lines 235-242 meet them
RECURSIVE AllIssues(_)
AllIssues(regression_results) ==
    IF regression_results = <<>> THEN <<>>
    ELSE IssuesOf(Head(regression_results)) \o AllIssues(Tail(regression_results))

\* lines 241-242 with issue_counter[issue] = 1
IssueCounterOnes(issues) == [f \in {issues[i] : i \in 1..Len(issues)} |-> 1]

\* lines 233, 241-242: issue_counter after the loops
IssueCounter(issues) ==
    [f \in {issues[i] : i \in 1..Len(issues)} |->
        Cardinality({i \in 1..Len(issues) : issues[i] = f})]

\* pass_rate is the fraction pass_count / total, 0.0 for no cases
summarize_regression_suite_results(regression_results) ==
    LET total == Len(regression_results)
        pass_count == Cardinality({i \in 1..total : PassedOf(regression_results[i])})
    IN  IF total = 0
        THEN [case_count |-> 0, pass_count |-> 0, fail_count |-> 0,
              pass_rate |-> [num |-> 0, den |-> 1],
              issue_frequency |-> IssueCounter(<<>>)]
        ELSE [case_count |-> total, pass_count |-> pass_count,
              fail_count |-> total - pass_count,
              pass_rate |-> [num |-> pass_count, den |-> total],
              issue_frequency |-> IssueCounter(AllIssues(regression_results))]

\* items of run_regression_suite: a health of the health check, or none
Healthy == [passed |-> TRUE, issue_count |-> 0, issues |-> <<>>]
NoModelCalls ==
    [passed |-> FALSE, issue_count |-> 1, issues |-> <<"no_model_invocations">>]
RegressionItems ==
    {[index |-> 0, health |-> Healthy],
     [index |-> 0, health |-> NoModelCalls],
     [index |-> 0, health |-> evaluate_pipeline_output_basic(
          [decision_brief_text |-> <<>>, structured_summary_json |-> EmptyObjectText,
           evaluation_json |-> EmptyObjectText])],
     [index |-> 0, health |-> evaluate_pipeline_output_basic(
          [decision_brief_text |-> <<"x">>, structured_summary_json |-> EmptyObjectText,
           evaluation_json |-> EmptyObjectText])],
     [index |-> 0]}
RegressionLists == UNION {[1..k -> RegressionItems] : k \in 0..MaxCases}

SummarizeRegressionSuiteResults ==
    /\ fn.op = "none"
    /\ fn' = [fn EXCEPT !.op = "summarize_regression_suite_results",
                        !.ret = summarize_regression_suite_results(fn.arg)]
    /\ UNCHANGED <<memVars, obsVars, runs, batch>>

-----------------------------------------------------------------------------
(* Runners: run_batch_fx_pricing_pipeline, run_regression_suite *)

BatchConfigs ==
    UNION {[1..k -> {[product_name |-> Widget, region |-> US],
                     [product_name |-> Gadget, region |-> US]}] : k \in 0..MaxRuns}

\* the call of a runner on a list of configs, before its loop
BatchInit ==
    /\ runs = [r \in 1..MaxRuns |-> NoRun]
    /\ fn = NoFn
    /\ batch \in {[NoBatch EXCEPT !.kind = kind, !.pc = "loop", !.configs = configs] :
                      kind \in {"batch", "regression"}, configs \in BatchConfigs}

\* the loop head with a config left (lines 22-24, 131-132); the batch runner reads
\* the clock
BatchNext ==
    /\ batch.pc = "loop"
    /\ batch.idx < Len(batch.configs)
    /\ \E t \in (IF batch.kind = "batch" THEN ClockReadings ELSE {now}) :
         /\ now' = t
         /\ batch' = [batch EXCEPT !.idx = @ + 1, !.pc = "calling", !.start = t]
    /\ UNCHANGED <<max_sessions_per_key, _store, store_order, _consolidated,
                   _aggregate_metrics, next_id, last, hist, obsVars, runs, fn>>

\* the loop is over: lines 60-66, 162
BatchReturn ==
    /\ batch.pc = "loop"
    /\ batch.idx = Len(batch.configs)
    /\ batch' = [batch EXCEPT !.pc = "done"]
    /\ UNCHANGED <<memVars, obsVars, runs, fn>>

\* await run_full_fx_pricing_pipeline(product_name=cfg["product_name"], ...) of
\* lines 26-38 and 134-146: the call
BatchCall(r, backends) ==
    /\ batch.pc = "calling"
    /\ batch.idx = r
    /\ Start(r, {batch.configs[r].product_name}, backends)

\* the record of an item: the batch_meta entry of lines 43-55, or the
\* regression_results entry of lines 148-160
ItemRecord(kind, idx, cfg, result, duration_ms) ==
    IF kind = "batch"
    THEN [index |-> idx, product_name |-> cfg.product_name, region |-> cfg.region,
          duration_ms |-> duration_ms,
          model_invocations |-> result.observability_detailed.model_invocations,
          tool_invocations |-> result.observability_detailed.tool_invocations,
          agent_invocations |-> result.observability_detailed.agent_invocations,
          total_prompt_chars |-> result.observability_detailed.total_prompt_chars,
          total_response_chars |-> result.observability_detailed.total_response_chars]
    ELSE [index |-> idx, input |-> cfg,
          health |-> evaluate_pipeline_output_basic(result),
          observability_summary |-> result.observability_summary]

\* the awaited call raised and the loop goes on with the next config
BatchSkipRaised ==
    /\ batch.pc = "calling"
    /\ runs[batch.idx].pc = Raised
    /\ batch' = [batch EXCEPT !.pc = "loop"]
    /\ UNCHANGED <<memVars, obsVars, runs, fn>>

\* the awaited call returned: lines 40-58, 148-160
BatchCollect ==
    /\ batch.pc = "calling"
    /\ runs[batch.idx].pc = Returned
    /\ \E t \in (IF batch.kind = "batch" THEN ClockReadings ELSE {now}) :
         LET result == runs[batch.idx].result[1]
             record == ItemRecord(batch.kind, batch.idx, batch.configs[batch.idx],
                                  result, _ms_since(batch.start, t))
         IN  /\ now' = t
             /\ batch' = [batch EXCEPT
                    !.pc = "loop",
                    !.records = Append(@, record),
                    !.batch_results =
                        IF batch.kind = "batch" THEN Append(@, result) ELSE @]
    /\ UNCHANGED <<max_sessions_per_key, _store, store_order, _consolidated,
                   _aggregate_metrics, next_id, last, hist, obsVars, runs, fn>>

\* the awaited call raised: nothing in the runners catches, the exception leaves them
BatchRaise ==
    /\ batch.pc = "calling"
    /\ runs[batch.idx].pc = Raised
    /\ batch' = [batch EXCEPT !.pc = "raised"]
    /\ UNCHANGED <<memVars, obsVars, runs, fn>>

\* the texts of the agents under a runner: a decision brief of 1 or of 400
\* characters, an evaluation that commits or one whose overall_score no float holds
BatchTexts ==
    [k \in Stages |->
        IF k = 6 THEN {Fenced(<<"{", "recommended_price:5", "}">>),
                       <<LongProse>> \o Fenced(<<"{", "recommended_price:5", "}">>)}
        ELSE RunTexts[k]]

-----------------------------------------------------------------------------
(* Agent tools: configure_agent *)

\* temperatures in tenths: the range [0.0, 1.0] is 0..TemperatureMax
TemperatureMax == 10

\* configure_agent (lines 65-87) on the shared CONFIG mapping, statement by
\* statement: raised is the RuntimeError of a failed _check, CONFIG the mapping the
\* call leaves behind, changes the list built so far
configure_agent(config, temperature, max_tokens, model_name) ==
    IF temperature # <<>> /\ ~(0 <= temperature[1] /\ temperature[1] <= TemperatureMax)
    THEN [raised |-> TRUE, CONFIG |-> config, changes |-> <<>>]
    ELSE IF max_tokens # <<>> /\ ~(max_tokens[1] > 0)
    THEN [raised |-> TRUE,
          CONFIG |-> IF temperature # <<>>
                     THEN Put(config, "temperature", temperature[1]) ELSE config,
          changes |-> IF temperature # <<>> THEN <<"temperature">> ELSE <<>>]
    ELSE [raised |-> FALSE,
          CONFIG |->
            [k \in DOMAIN config \cup {"temperature" : x \in DOMAIN temperature}
                                 \cup {"max_tokens" : x \in DOMAIN max_tokens}
                                 \cup {"model" : x \in DOMAIN model_name} |->
                IF k = "temperature" /\ temperature # <<>> THEN temperature[1]
                ELSE IF k = "max_tokens" /\ max_tokens # <<>> THEN max_tokens[1]
                ELSE IF k = "model" /\ model_name # <<>> THEN model_name[1]
                ELSE config[k]],
          changes |-> (IF temperature # <<>> THEN <<"temperature">> ELSE <<>>)
                      \o (IF max_tokens # <<>> THEN <<"max_tokens">> ELSE <<>>)
                      \o (IF model_name # <<>> THEN <<"model">> ELSE <<>>)]

\* the CONFIG of the tools test (lines 232-236) and an empty one
Configs ==
    {[model |-> "simple-model", temperature |-> 3, max_tokens |-> 2048],
     [k \in {} |-> 0]}
\* the arguments: None, values inside and outside the documented ranges
ConfigureArgs ==
    [CONFIG : Configs,
     temperature : {<<>>} \cup {<<x>> : x \in {0 - 1, 0, 5, TemperatureMax,
                                                TemperatureMax + 1}},
     max_tokens : {<<>>} \cup {<<x>> : x \in {0 - 1, 0, 1, 4096}},
     model_name : {<<>>, <<"other-model">>}]

ConfigureAgent ==
    /\ fn.op = "none"
    /\ fn' = [fn EXCEPT !.op = "configure_agent",
                        !.ret = configure_agent(fn.arg.CONFIG, fn.arg.temperature,
                                                fn.arg.max_tokens, fn.arg.model_name)]
    /\ UNCHANGED <<memVars, obsVars, runs, batch>>

\* C21: whenever configure_agent raises for an invalid argument, CONFIG is exactly
\* what it was before the call, for every combination of temperature, max_tokens
\* and model_name.
C21_ChecksBeforeWork ==
    (fn.op = "configure_agent" /\ fn.ret.raised) => fn.ret.CONFIG = fn.arg.CONFIG

-----------------------------------------------------------------------------
(* Prompts: build_*_prompt as called by run_full_fx_pricing_pipeline *)

\* combined_notes of lines 91-102: the manager's notes, and the history note when
\* load_last_session found an entry
CombinedNotes(run) ==
    IF run.previous_entry = <<>> THEN [manager_notes |-> run.manager_notes]
    ELSE [manager_notes |-> run.manager_notes,
          last_run_at |-> run.previous_entry[1].created_at_ts,
          last_notes |-> Take(run.previous_entry[1].manager_notes, 200)]

\* the prompt of stage k (lines 106, 120, 137, 166, 192, 210, 231): a template is
\* fixed text, so a prompt is the value of each argument the pipeline passes to the
\* builder. category, the currencies, the prices, the volume and the target margin
\* are the same in every run and are left out.
StagePrompt(run, k) ==
    CASE k = 1 -> [builder |-> "build_market_research_prompt",
                   product_name |-> run.product_name, region |-> run.region]
      [] k = 2 -> [builder |-> "build_competitive_pricing_prompt",
                   product_name |-> run.product_name, region |-> run.region]
      [] k = 3 -> [builder |-> "build_vendor_fx_prompt"]
      [] k = 4 -> [builder |-> "build_fx_impact_prompt",
                   current_fx_rate |-> run.current_fx_rate]
      [] k = 5 -> [builder |-> "build_margin_scenario_prompt",
                   unit_cost |-> run.current_fx_rate]
      [] k = 6 -> [builder |-> "build_decision_brief_prompt",
                   product_name |-> run.product_name, region |-> run.region,
                   market_research_json |-> run.market_research_json,
                   competitive_pricing_json |-> run.competitive_pricing_json,
                   fx_impact_json |-> run.fx_impact_json,
                   margin_scenarios_json |-> run.margin_scenarios_json,
                   additional_notes |-> CombinedNotes(run)]
      [] k = 7 -> [builder |-> "build_evaluation_prompt",
                   decision_brief_text |-> run.decision_brief_text,
                   structured_summary_json |-> run.structured_summary_json,
                   product_name |-> run.product_name, region |-> run.region]

\* the JSON extracted from the response of stage k, k < 7
StageJson(run, k) ==
    CASE k = 1 -> run.market_research_json
      [] k = 2 -> run.competitive_pricing_json
      [] k = 3 -> run.vendor_fx_json
      [] k = 4 -> run.fx_impact_json
      [] k = 5 -> run.margin_scenarios_json
      [] k = 6 -> run.structured_summary_json

\* two texts per stage before the last whose extracted JSON differs; the two vendor
\* objects name the same rate
PromptTexts ==
    [k \in Stages |->
        IF k = 3 THEN {Fenced(<<"{", "rate:2", "}">>), Fenced(<<"{", "rate:2", "a:1", "}">>)}
        ELSE IF k = 7 THEN {Fenced(EmptyObjectText)}
        ELSE {Fenced(EmptyObjectText), Fenced(<<"{", "a:1", "}">>)}]

-----------------------------------------------------------------------------
(* Claims on the pipeline *)

ClaimedOrder ==
    <<"market_research_agent", "competitive_pricing_agent", "vendor_fx_agent",
      "fx_impact_agent", "margin_scenario_planner_agent", "decision_brief_agent",
      "evaluation_agent">>
\* the i-th thing a run does: call and return of each agent in turn, then the add
ClaimedStep(i) ==
    IF i = 15 THEN [ev |-> "add", agent |-> "FX_MEMORY"]
    ELSE IF i % 2 = 1 THEN [ev |-> "call", agent |-> ClaimedOrder[(i + 1) \div 2]]
    ELSE [ev |-> "return", agent |-> ClaimedOrder[i \div 2]]
Committed == {r \in DOMAIN runs : runs[r].trace # <<>>
                                   /\ runs[r].trace[Len(runs[r].trace)].ev = "add"}

\* C6: in every run the agent invocations are, in this order, market research,
\* competitive pricing, vendor FX, FX impact, margin scenarios, decision brief,
\* evaluation; each is called only after the one before it returned, none is skipped
\* or repeated, at most one is in flight, and add_session_to_memory comes only after
\* the evaluation agent returned.
C6_StageOrder ==
    /\ \A r \in DOMAIN runs :
          LET trace == runs[r].trace
          IN  /\ Len(trace) <= 15
              /\ \A i \in 1..Len(trace) :
                    /\ trace[i].ev = ClaimedStep(i).ev
                    /\ trace[i].agent = ClaimedStep(i).agent
              /\ runs[r].inflight <=> (trace # <<>> /\ trace[Len(trace)].ev = "call")
    /\ next_id <= Cardinality(Committed)

\* C6 witness: a run that made all seven invocations and committed
C6_Witness ==
    \E r \in DOMAIN runs :
        /\ runs[r].pc = Returned
        /\ Len(runs[r].trace) = 15
        /\ next_id >= 1

\* C7: a run whose seven agent invocations all returned, whatever their texts, has
\* not raised: it made exactly one add_session_to_memory, which stored one entry, and
\* returned its result; after one run for one product and region from an empty store
\* the store holds exactly one entry, under that key.
C7_RunCommits ==
    \A r \in DOMAIN runs :
        /\ runs[r].pc # Raised
        /\ runs[r].pc = Returned =>
              /\ runs[r].result # <<>>
              /\ next_id = Cardinality(Committed)
              /\ Cardinality(AllEntries(_store)) = Cardinality(Committed)
              /\ Len(search_memory(runs[r].product_name, runs[r].region, 10)) >= 1

\* C8: every run holds a collector of its own, created by it, and hands that one to
\* each of its agent invocations; the observability_summary of its result counts the
\* callbacks the backend fired during this run's invocations and no others, so it
\* shows at least 7 model invocations when each of the seven invocations fired a
\* model-before callback, whatever ran before.
C8_OwnCollector ==
    \A r \in DOMAIN runs :
        runs[r].pc # 0 =>
            /\ runs[r].obs_plugin \in DOMAIN plugins
            /\ \A q \in DOMAIN runs \ {r} :
                  runs[q].pc # 0 => runs[q].obs_plugin # runs[r].obs_plugin
            /\ \A i \in 1..Len(runs[r].trace) :
                  runs[r].trace[i].ev = "call" =>
                      runs[r].trace[i].plugin = runs[r].obs_plugin
            /\ plugins[runs[r].obs_plugin].model_invocations = runs[r].model_before_fired
            /\ Len(plugins[runs[r].obs_plugin].events) = runs[r].callbacks_fired
            /\ runs[r].pc = Returned =>
                  LET summary == runs[r].result[1].observability_summary
                  IN  /\ summary.model_invocations = runs[r].model_before_fired
                      /\ summary.event_count = runs[r].callbacks_fired
                      /\ runs[r].stages_with_model = 7 => summary.model_invocations >= 7

\* C8 witness: a run that returned 8 model invocations after a run whose backend
\* fired a single model-before callback
C8_Witness ==
    /\ runs[1].pc = Returned /\ runs[1].backend = "first_only"
    /\ runs[1].result[1].observability_summary.model_invocations = 1
    /\ runs[2].pc = Returned /\ runs[2].backend = "model"
    /\ runs[2].stages_with_model = 7
    /\ runs[2].result[1].observability_summary.model_invocations = 8
    /\ runs[2].result[1].observability_summary.error_count = 0

\* a JSON number that a float holds
JsonNumber(v) == v.type = "int"

\* the rate the vendor's JSON names, in hundredths: its top-level rate when that is a
\* number, else the rate of the first of its quotes when that is a number, else 0.14
NamedRate(vendor_fx_json) ==
    LET parsed == JsonLoads(vendor_fx_json)
        obj == parsed.obj
        first_quote == obj["quotes"].items[1]
    IN  IF ~(parsed.ok /\ parsed.isdict) THEN DefaultFxRate
        ELSE IF "rate" \in DOMAIN obj /\ JsonNumber(obj["rate"]) THEN obj["rate"].n * 100
        ELSE IF /\ "quotes" \in DOMAIN obj
                /\ obj["quotes"].type = "list"
                /\ obj["quotes"].items # <<>>
                /\ first_quote.type = "dict"
                /\ "rate" \in DOMAIN first_quote.obj
                /\ JsonNumber(first_quote.obj["rate"])
        THEN first_quote.obj["rate"].n * 100
        ELSE DefaultFxRate

\* C24: every entry a pipeline run commits to the memory store has non-empty
\* market_research_json, competitive_pricing_json, fx_impact_json,
\* margin_scenarios_json, structured_summary_json and decision_brief_text, for every
\* text the agents may return (empty text, an empty fenced JSON block, a decision
\* output that starts with the JSON fence).
C24_CommittedFieldsNonEmpty ==
    \A e \in AllEntries(_store) :
        /\ e.market_research_json # <<>>
        /\ e.competitive_pricing_json # <<>>
        /\ e.fx_impact_json # <<>>
        /\ e.margin_scenarios_json # <<>>
        /\ e.structured_summary_json # <<>>
        /\ e.decision_brief_text # <<>>

\* the prompt of stage k of run r was sent
PromptSent(r, k) == (runs[r].pc = k /\ runs[r].inflight) \/ runs[r].pc > k
\* the arguments of the two calls of the pipeline, and what the store held for them
SameInputs(r1, r2) ==
    /\ runs[r1].product_name = runs[r2].product_name
    /\ runs[r1].region = runs[r2].region
    /\ runs[r1].manager_notes = runs[r2].manager_notes
    /\ runs[r1].previous_entry = runs[r2].previous_entry

\* C26: each stage k in 2..7 is strictly dependent on the prior stage's output: two
\* runs with identical inputs whose stage k-1 responses yield different extracted
\* JSON send different prompts at stage k.
C26_PromptDependsOnPrior ==
    \A r1 \in DOMAIN runs : \A r2 \in DOMAIN runs : \A k \in 2..7 :
        (/\ PromptSent(r1, k)
         /\ PromptSent(r2, k)
         /\ SameInputs(r1, r2)
         /\ StageJson(runs[r1], k - 1) # StageJson(runs[r2], k - 1)) =>
            StagePrompt(runs[r1], k) # StagePrompt(runs[r2], k)

\* the run ended with an exception of the agent backend
RaisedInStage(run) == run.trace # <<>> /\ run.trace[Len(run.trace)].ev = "raise"
\* the step is the commit of run r: add_session_to_memory after the seventh stage
CommitStep(r) ==
    /\ runs[r].pc = 7
    /\ runs'[r].pc \in {Returned, Raised}
    /\ runs'[r].trace[Len(runs'[r].trace)].ev = "add"

\* C28: if the agent backend raises during any of the seven stages of a run, the
\* exception propagates out of run_full_fx_pricing_pipeline (the run ends without a
\* result and does nothing more) and the memory store (buckets, cached digests,
\* metrics) is what it was before the run started: no step of the run changed it,
\* no partial entry is committed.
C28_BackendRaiseLeavesStore ==
    [][\A r \in DOMAIN runs :
          /\ (runs'[r] # runs[r] /\ ~CommitStep(r)) =>
                UNCHANGED <<_store, store_order, _consolidated, _aggregate_metrics,
                            next_id>>
          /\ RaisedInStage(runs'[r]) =>
                /\ runs'[r].pc = Raised
                /\ ~runs'[r].inflight
                /\ runs'[r].result = <<>>
                /\ \A i \in 1..Len(runs'[r].trace) : runs'[r].trace[i].ev # "add"
          /\ RaisedInStage(runs[r]) => runs'[r] = runs[r]]_vars

\* C28 witness: the first run committed an entry, the backend raised in the fourth
\* stage of the second, and the store holds the first run's entry only
C28_Witness ==
    /\ runs[1].pc = Returned
    /\ RaisedInStage(runs[2])
    /\ runs[2].trace[Len(runs[2].trace)].agent = StageAgents[4]
    /\ runs[2].previous_entry # <<>>
    /\ next_id = 1
    /\ get_session_count(Widget, US) = 1
    /\ load_last_session(Widget, US) = runs[2].previous_entry

\* C30: with several runs of the pipeline on the shared store, for the same key or
\* for different ones, taking turns between agent invocations, in every state each
\* bucket holds at most max_sessions_per_key entries, each key's metrics are the
\* ones its bucket gives, and the store has taken one insert per completed run
C30_InterleavedRunsKeepStore ==
    /\ \A k \in DOMAIN _store : Len(_store[k]) <= max_sessions_per_key
    /\ DOMAIN _aggregate_metrics = DOMAIN _store
    /\ \A k \in DOMAIN _store :
           /\ ~MetricsRaises(_store[k])
           /\ _aggregate_metrics[k] = ComputeMetrics(_store[k])
    /\ next_id = Cardinality({r \in DOMAIN runs : runs[r].pc = Returned})

\* C15: the FX rate of stages 4 and 5 is the vendor JSON's top-level numeric rate,
\* else the numeric rate of the first element of its non-empty quotes list, else
\* 0.14, also when the vendor JSON is invalid or no object; the step never raises.
C15_VendorRate ==
    fn.op = "current_fx_rate" =>
        /\ fn.ret \in Nat
        /\ fn.ret = NamedRate(_extract_json_block(fn.arg))

\* C18: both runners call the pipeline once per config in input order, the call for
\* item k+1 only after the call for item k returned; when no call raises the output
\* has one record per config in input order, a case that fails the health check
\* among them; when the call for item k raises, the runner raises and no item after
\* k is run.
C18_RunnerSequential ==
    batch.kind # "none" =>
        /\ \A r \in 1..MaxRuns :
               runs[r].pc # 0 =>
                   /\ r <= batch.idx
                   /\ r <= Len(batch.configs)
                   /\ runs[r].product_name = batch.configs[r].product_name
                   /\ \A q \in 1..(r - 1) : runs[q].pc = Returned
        /\ Cardinality({r \in 1..MaxRuns : runs[r].pc \in Stages}) <= 1
        /\ \A i \in 1..Len(batch.records) :
               /\ batch.records[i].index = i
               /\ runs[i].pc = Returned
               /\ IF batch.kind = "batch"
                  THEN /\ batch.records[i].product_name = batch.configs[i].product_name
                       /\ batch.batch_results[i] = runs[i].result[1]
                  ELSE /\ batch.records[i].input = batch.configs[i]
                       /\ batch.records[i].health.passed
                              = (batch.records[i].health.issues = <<>>)
                       /\ batch.records[i].health
                              = evaluate_pipeline_output_basic(runs[i].result[1])
        /\ batch.pc = "done" =>
               /\ Len(batch.records) = Len(batch.configs)
               /\ batch.kind = "batch" => Len(batch.batch_results) = Len(batch.configs)
        /\ batch.pc = "raised" =>
               /\ runs[batch.idx].pc = Raised
               /\ Len(batch.records) = batch.idx - 1
               /\ \A r \in (batch.idx + 1)..MaxRuns : runs[r].pc = 0
        /\ \A r \in 1..MaxRuns :
               (runs[r].pc = Raised /\ batch.pc # "raised") =>
                   (batch.pc = "calling" /\ batch.idx = r)

\* C18 witness: the regression suite over two configs, the first case recorded as
\* failing its health check, the call for the second raising
C18_Witness ==
    /\ batch.kind = "regression"
    /\ Len(batch.configs) = 2
    /\ batch.pc = "raised" /\ batch.idx = 2
    /\ Len(batch.records) = 1
    /\ ~batch.records[1].health.passed

-----------------------------------------------------------------------------
(* Claims on the health check and the regression summary *)

Flags(issues) == {issues[i] : i \in 1..Len(issues)}

\* what a result holds under a key, the empty text when the key is missing
TextOf(result, k) == IF k \in DOMAIN result THEN result[k] ELSE <<>>

\* the result names a number of model invocations other than zero
HasModelCalls(result) ==
    /\ "observability_summary" \in DOMAIN result
    /\ "model_invocations" \in DOMAIN result["observability_summary"]
    /\ result["observability_summary"]["model_invocations"] # 0

\* C16: evaluate_pipeline_output_basic returns for every result mapping; passed is
\* true exactly when the issue list is empty and issue_count is its length; a flag is
\* in the list exactly when its condition holds (summary or evaluation no valid JSON,
\* or valid and no object; brief empty after trimming; trimmed brief under 400
\* characters; zero or missing model invocations); an empty brief gives both brief
\* flags and passed = false.
C16_HealthFlags ==
    fn.op = "evaluate_pipeline_output_basic" =>
        LET result == fn.arg
            flags == Flags(fn.ret.issues)
            summary == JsonLoads(TextOf(result, "structured_summary_json"))
            evaluation == JsonLoads(TextOf(result, "evaluation_json"))
            brief == Strip(TextOf(result, "decision_brief_text"))
        IN  /\ fn.ret.passed = (fn.ret.issues = <<>>)
            /\ fn.ret.issue_count = Len(fn.ret.issues)
            /\ Cardinality(flags) = Len(fn.ret.issues)
            /\ "structured_summary_not_valid_json" \in flags <=> ~summary.ok
            /\ "structured_summary_not_dict" \in flags <=> (summary.ok /\ ~summary.isdict)
            /\ "evaluation_not_valid_json" \in flags <=> ~evaluation.ok
            /\ "evaluation_not_dict" \in flags <=> (evaluation.ok /\ ~evaluation.isdict)
            /\ "empty_decision_brief" \in flags <=> (brief = <<>>)
            /\ "decision_brief_too_short" \in flags <=> (Chars(brief) < BriefMinChars)
            /\ "no_model_invocations" \in flags <=> ~HasModelCalls(result)
            /\ flags \subseteq {"structured_summary_not_valid_json",
                                "structured_summary_not_dict",
                                "evaluation_not_valid_json", "evaluation_not_dict",
                                "empty_decision_brief", "decision_brief_too_short",
                                "no_model_invocations"}
            /\ brief = <<>> =>
                   /\ {"empty_decision_brief", "decision_brief_too_short"}
                          \subseteq flags
                   /\ ~fn.ret.passed

\* C16 witness: a brief of whitespace alone in a result that is sound otherwise
C16_Witness ==
    /\ fn.op = "evaluate_pipeline_output_basic"
    /\ fn.arg = [structured_summary_json |-> EmptyObjectText,
                 evaluation_json |-> EmptyObjectText,
                 decision_brief_text |-> <<" ">>,
                 observability_summary |-> [model_invocations |-> 2, error_count |-> 0]]
    /\ fn.ret = [passed |-> FALSE, issue_count |-> 2,
                 issues |-> <<"empty_decision_brief", "decision_brief_too_short">>]

\* the places (item, position in its issue list) where a flag occurs
Occurrences(regression_results, flag) ==
    {<<i, j>> \in (1..Len(regression_results)) \X (1..7) :
        /\ j <= Len(IssuesOf(regression_results[i]))
        /\ IssuesOf(regression_results[i])[j] = flag}

\* C17: for every list of regression results the summary has case_count = number of
\* results, pass_count + fail_count = case_count, pass_rate = pass_count / case_count
\* (0 for the empty list), and issue_frequency maps each flag that occurs to the
\* number of its occurrences over all issue lists and has no other entry; one
\* passing case and one failing with no_model_invocations give 1/2 and
\* {no_model_invocations: 1}.
C17_RegressionSummary ==
    fn.op = "summarize_regression_suite_results" =>
        LET results == fn.arg
            summary == fn.ret
            passing == {i \in 1..Len(results) : PassedOf(results[i])}
        IN  /\ summary.case_count = Len(results)
            /\ summary.pass_count = Cardinality(passing)
            /\ summary.pass_count + summary.fail_count = summary.case_count
            /\ summary.pass_rate.den > 0
            /\ IF results = <<>> THEN summary.pass_rate.num = 0
               ELSE summary.pass_rate.num * summary.case_count
                       = summary.pass_count * summary.pass_rate.den
            /\ \A flag \in DOMAIN summary.issue_frequency :
                   /\ summary.issue_frequency[flag] >= 1
                   /\ summary.issue_frequency[flag]
                          = Cardinality(Occurrences(results, flag))
            /\ \A i \in 1..Len(results) :
                   Flags(IssuesOf(results[i])) \subseteq DOMAIN summary.issue_frequency
            /\ results = <<[index |-> 0, health |-> Healthy],
                           [index |-> 0, health |-> NoModelCalls]>> =>
                   /\ summary.pass_rate.num * 2 = summary.pass_rate.den
                   /\ DOMAIN summary.issue_frequency = {"no_model_invocations"}
                   /\ summary.issue_frequency["no_model_invocations"] = 1

\* C17 witness: three cases, one passing, two failing with a flag in common
C17_Witness ==
    /\ fn.op = "summarize_regression_suite_results"
    /\ Len(fn.arg) = 3
    /\ fn.ret.pass_count = 1 /\ fn.ret.fail_count = 2
    /\ fn.ret.pass_rate = [num |-> 1, den |-> 3]
    /\ "no_model_invocations" \in DOMAIN fn.ret.issue_frequency
    /\ fn.ret.issue_frequency["no_model_invocations"] = 2

-----------------------------------------------------------------------------
(* Specifications *)

\* the session memory store under calls that differ in spelling
Next ==
    \/ Add(SpellingCalls, MaxAdds)
    \/ Consolidate({<<Widget, US>>, <<Gadget, US>>}, {MaxSessions})
    \/ Prune

Init == MemInit(1..MaxCap) /\ ObsInit(0) /\ PipeInit
Spec == Init /\ [][Next]_vars

\* the session memory store under calls that differ in scores and prices
NextMetrics ==
    \/ Add(ScoreCalls, MaxAdds + 1)
    \/ Consolidate({<<Widget, US>>}, {MaxSessions})
    \/ Prune

InitMetrics == MemInit({MaxCap, MaxCap + 1}) /\ ObsInit(0) /\ PipeInit
SpecMetrics == InitMetrics /\ [][NextMetrics]_vars

\* the session memory store under consolidations of any limit and spelling
NextBackfill == Add(BackfillCalls, MaxAdds)

InitBackfill == MemInit({MaxCap}) /\ ObsInit(0) /\ PipeInit
SpecBackfill == InitBackfill /\ [][NextBackfill]_vars

\* two keys of the store under adds and consolidations, one add more than elsewhere
NextFrame ==
    \/ Add({[BaseArgs EXCEPT !.product_name = site[1], !.region = site[2]]
                : site \in {<<Widget, US>>, <<Gadget, US>>}}, MaxAdds + 1)
    \/ Consolidate({<<Widget, US>>, <<Gadget, US>>}, {1, MaxSessions})

InitFrame == MemInit({MaxCap}) /\ ObsInit(0) /\ PipeInit
SpecFrame == InitFrame /\ [][NextFrame]_vars

NextDigest ==
    \/ Add(SpellingCalls, MaxAdds)
    \/ Consolidate({<<Widget, US>>, <<WidgetPadded, UsLower>>}, 0..MaxSessions)
    \/ Prune

InitDigest == MemInit({MaxCap}) /\ ObsInit(0) /\ PipeInit
SpecDigest == InitDigest /\ [][NextDigest]_vars

\* one collector under any sequence of callbacks
NextObs ==
    \/ BeforeModel(1) \/ AfterModel(1) \/ ModelError(1)
    \/ BeforeTool(1) \/ AfterTool(1)
    \/ BeforeAgent(1) \/ AfterAgent(1)

InitObs == MemInit({MaxCap}) /\ ObsInit(1) /\ PipeInit
SpecObs == InitObs /\ [][NextObs]_vars

\* pipeline runs over FX_MEMORY, each with a backend that fires callbacks
NextCalls ==
    \/ \E kind \in Kinds : CallBegin(1, kind)
    \/ \E i \in 1..MaxEvents : CallEnd(i)

SpecCalls == InitObs /\ [][NextCalls]_vars

NextPipe ==
    \E r \in 1..MaxRuns :
        \/ Start(r, {Widget}, Backends)
        \/ Invoke(r)
        \/ BackendCallback(r)
        \/ ReturnStage(r, RunTexts)
        \/ ReturnAndCommit(r, RunTexts)

InitPipe == MemInit({FxMemoryCap}) /\ ObsInit(0) /\ PipeInit
SpecPipe == InitPipe /\ [][NextPipe]_vars

\* _extract_json_block and _split_text_and_json, each applied to one text
NextExtract ==
    \/ ExtractJsonBlock
    \/ SplitTextAndJson

InitExtract ==
    MemInit({MaxCap}) /\ ObsInit(0) /\ FnInit(TokenTexts(MaxTextLen) \cup MarkedTexts)
SpecExtract == InitExtract /\ [][NextExtract]_vars

\* the vendor stage's rate, applied to one vendor output
NextVendor == VendorFxRate

InitVendor == MemInit({MaxCap}) /\ ObsInit(0) /\ FnInit(VendorTexts)
SpecVendor == InitVendor /\ [][NextVendor]_vars

\* the health check, applied to one fabricated result
NextHealth == EvaluatePipelineOutputBasic

InitHealth == MemInit({MaxCap}) /\ ObsInit(0) /\ FnInit(FabricatedResults)
SpecHealth == InitHealth /\ [][NextHealth]_vars

\* the regression summary, applied to one list of regression results
NextSummary == SummarizeRegressionSuiteResults

InitSummary == MemInit({MaxCap}) /\ ObsInit(0) /\ FnInit(RegressionLists)
SpecSummary == InitSummary /\ [][NextSummary]_vars

\* a runner over a list of configs, the pipeline run of each config under it
NextBatch ==
    \/ BatchNext
    \/ BatchReturn
    \/ BatchCollect
    \/ BatchRaise
    \/ \E r \in 1..MaxRuns :
           \/ BatchCall(r, {"model"})
           \/ Invoke(r)
           \/ BackendCallback(r)
           \/ ReturnStage(r, BatchTexts)
           \/ ReturnAndCommit(r, BatchTexts)

InitBatch == MemInit({FxMemoryCap}) /\ ObsInit(0) /\ BatchInit
SpecBatch == InitBatch /\ [][NextBatch]_vars

\* one pipeline run whose agents return any of the texts
NextConfigure == ConfigureAgent

InitConfigure == MemInit({MaxCap}) /\ ObsInit(0) /\ FnInit(ConfigureArgs)
SpecConfigure == InitConfigure /\ [][NextConfigure]_vars

NextPrompts ==
    \E r \in 1..MaxRuns :
        \/ Start(r, {Widget}, {"quiet"})
        \/ Invoke(r)
        \/ ReturnStage(r, PromptTexts)
        \/ ReturnAndCommit(r, PromptTexts)

SpecPrompts == InitPipe /\ [][NextPrompts]_vars

NextRaise ==
    \E r \in 1..MaxRuns :
        \/ Start(r, {Widget}, {"model"})
        \/ Invoke(r)
        \/ BackendCallback(r)
        \/ BackendRaise(r)
        \/ ReturnStage(r, RunTexts)
        \/ ReturnAndCommit(r, RunTexts)

SpecRaise == InitPipe /\ [][NextRaise]_vars

\* runs for one key or two taking turns between agent invocations
NextInterleave ==
    \E r \in 1..MaxRuns :
        \/ Start(r, {Widget, Gadget}, {"quiet"})
        \/ Invoke(r)
        \/ ReturnStage(r, CommitTexts)
        \/ ReturnAndCommit(r, CommitTexts)

SpecInterleave == InitPipe /\ [][NextInterleave]_vars

NextTexts ==
    \/ Start(1, {Widget}, {"quiet"})
    \/ Invoke(1)
    \/ ReturnStage(1, AnyTexts)
    \/ ReturnAndCommit(1, AnyTexts)

SpecTexts == InitPipe /\ [][NextTexts]_vars

====
